---------------------------- MODULE Spec2Model ----------------------------
(***************************************************************************)
(* Baseline execution protocol of the prompt-based reasoning evaluator:    *)
(* the executor base class (counters, call_llm, create_response), the      *)
(* three prompting strategies (Input, ZeroShotCoT, ZeroShotCoTSinglePass)  *)
(* and the Response Record.                                                *)
(*                                                                         *)
(* A text is a sequence of symbols.  Whitespace is kept one character per  *)
(* symbol (" ", "\n", "\t", "\r"); every other symbol is a run of          *)
(* characters that starts and ends with a non-whitespace character, holds  *)
(* no line break, and is never split by the code's literals and patterns   *)
(* ("answer", "is", ":", "Final Answer", "4").                             *)
(***************************************************************************)
EXTENDS Integers, Sequences, FiniteSets, TLC

(***************************************************************************)
(* Bounds of the model.                                                    *)
(***************************************************************************)
\* The texts a text function is called with directly have at most MaxLen
\* symbols, or are an answer phrase of the shape the extraction expects with
\* at most MaxDots trailing periods.
MaxLen == 4
MaxDots == 2
\* A Port call reports no tokens at all, or MaxTok tokens split in any way
\* between input and output.
MaxTok == 1

\* An Efficiency object holds at most MaxSamples rows.
MaxSamples == 2

\* An AccuracyStatistics object holds at most MaxRuns values, each a whole
\* number of at most MaxAccuracy.
MaxRuns == 3
MaxAccuracy == 2

(***************************************************************************)
(* Text helpers: Python's str methods on texts.                            *)
(***************************************************************************)
Whitespace == {" ", "\n", "\t", "\r"}

RECURSIVE lstrip(_)
lstrip(s) ==
    IF s = <<>> THEN s
    ELSE IF Head(s) \in Whitespace THEN lstrip(Tail(s)) ELSE s

RECURSIVE rstrip(_)
rstrip(s) ==
    IF s = <<>> THEN s
    ELSE IF s[Len(s)] \in Whitespace THEN rstrip(SubSeq(s, 1, Len(s) - 1)) ELSE s

\* str.strip(): leading and trailing whitespace removed.
strip(s) == rstrip(lstrip(s))

\* str.rstrip("."): trailing periods removed.
RECURSIVE rstrip_dots(_)
rstrip_dots(s) ==
    IF s = <<>> THEN s
    ELSE IF s[Len(s)] = "." THEN rstrip_dots(SubSeq(s, 1, Len(s) - 1)) ELSE s

\* str.lower() on one symbol, for the symbols that hold upper-case letters.
lower_sym(a) ==
    CASE a = "Therefore" -> "therefore"
      [] a = "The" -> "the"
      [] a = "Answer" -> "answer"
      [] a = "ANSWER" -> "answer"
      [] a = "Is" -> "is"
      [] a = "IS" -> "is"
      [] a = "Final Answer" -> "final answer"
      [] a = "FINAL ANSWER" -> "final answer"
      [] OTHER -> a

lower(s) == [i \in 1..Len(s) |-> lower_sym(s[i])]

\* str.startswith(prefix)
startswith(s, prefix) ==
    /\ Len(prefix) <= Len(s)
    /\ SubSeq(s, 1, Len(prefix)) = prefix

\* s[n:]
drop(s, n) == SubSeq(s, n + 1, Len(s))

\* Index of the first / last "\n" of s, 0 when there is none.
first_newline(s) ==
    IF \E i \in 1..Len(s) : s[i] = "\n"
    THEN CHOOSE i \in 1..Len(s) : s[i] = "\n" /\ \A j \in 1..(i - 1) : s[j] # "\n"
    ELSE 0

last_newline(s) ==
    IF \E i \in 1..Len(s) : s[i] = "\n"
    THEN CHOOSE i \in 1..Len(s) : s[i] = "\n" /\ \A j \in (i + 1)..Len(s) : s[j] # "\n"
    ELSE 0

\* "\n\n".join(parts)
RECURSIVE join_blank(_)
join_blank(parts) ==
    IF parts = <<>> THEN <<>>
    ELSE IF Len(parts) = 1 THEN parts[1]
    ELSE parts[1] \o <<"\n", "\n">> \o join_blank(Tail(parts))

\* Number of leading whitespace symbols of s from position p on.
RECURSIVE ws_run(_, _)
ws_run(s, p) ==
    IF p <= Len(s) /\ s[p] \in Whitespace THEN 1 + ws_run(s, p + 1) ELSE 0

\* An Optional[str] argument is a set: {} is None, {t} is the text t.
None == {}
Some(t) == {t}
\* Python truthiness of an Optional[str]: None and "" are both false.
truthy(o) == o # {} /\ o # {<<>>}
the(o) == CHOOSE t \in o : TRUE
\* o or default
or_default(o, d) == IF truthy(o) THEN the(o) ELSE d

(***************************************************************************)
(* Prompt building and answer parsing of the strategies.                   *)
(***************************************************************************)
COT_TRIGGER == <<"Let's think step by step.">>
DEFAULT_EXTRACTION_PROMPT == <<"Therefore, the answer is">>

\* The optional sections shared by the three prompt builders.
prompt_head(system_prompt, instruction) ==
    (IF truthy(system_prompt) THEN <<the(system_prompt)>> ELSE <<>>)
    \o (IF truthy(instruction) THEN <<the(instruction)>> ELSE <<>>)

\* Input.build_prompt
build_prompt(question, system_prompt, instruction) ==
    join_blank(prompt_head(system_prompt, instruction)
               \o << <<"Question:", " ">> \o question, <<"Answer:">> >>)

\* ZeroShotCoT.build_reasoning_prompt
build_reasoning_prompt(cot_trigger, question, system_prompt, instruction) ==
    join_blank(prompt_head(system_prompt, instruction)
               \o << <<"Question:", " ">> \o question,
                     <<"Answer:", " ">> \o cot_trigger >>)

\* ZeroShotCoT.build_extraction_prompt
build_extraction_prompt(cot_trigger, extraction_prompt, question, reasoning) ==
    <<"Question:", " ">> \o question \o <<"\n", "\n">>
    \o <<"Answer:", " ">> \o cot_trigger \o <<" ">> \o reasoning \o <<"\n", "\n">>
    \o extraction_prompt

\* ZeroShotCoTSinglePass.build_prompt
build_prompt_single_pass(question, system_prompt, instruction) ==
    join_blank(prompt_head(system_prompt, instruction)
               \o << <<"Question:", " ">> \o question,
                     COT_TRIGGER
                     \o <<"\n", "After your reasoning, provide your final answer in the format:",
                          "\n", "**Final Answer:** [your answer]">> >>)

\* Position after one optional symbol, any of as, at position p of l.
opt(l, p, as) == IF p <= Len(l) /\ l[p] \in as THEN p + 1 ELSE p

\* Position after the whitespace that starts at position p of l.
skip_ws(l, p) == p + ws_run(l, p)

\* Position after \s*(?:is)?\s*[:=]?\s* matched from position p of l.
after_answer(l, p) ==
    skip_ws(l, opt(l, skip_ws(l, opt(l, skip_ws(l, p), {"is"})), {":", "="}))

\* Position after (?:therefore,?)? matched at the start of l.
after_therefore(l) ==
    IF 1 <= Len(l) /\ l[1] = "therefore" THEN opt(l, 2, {","}) ELSE 1

\* Position of "answer" once (?:therefore,?)?\s*(?:the)?\s* has matched from
\* the start of l.
before_answer(l) == skip_ws(l, opt(l, skip_ws(l, after_therefore(l)), {"the"}))

\* re.match of (?:therefore,?)?\s*(?:the)?\s*answer\s*(?:is)?\s*[:=]?\s* with
\* IGNORECASE on the lower-cased text l: match.end(), 0 when there is no match.
\* Every part is optional or greedy and no part can take what a later one
\* needs, so the first way the engine tries is the only one.
match_end(l, p) ==
    IF p <= Len(l) /\ l[p] = "answer" THEN after_answer(l, p + 1) - 1 ELSE 0

answer_pattern_end(s) == match_end(lower(s), before_answer(lower(s)))

prefixes_to_remove == << <<":">>, <<"is">>, <<"is", ":">>, <<"=">> >>

\* One iteration of the loop of extract_answer_simple: prefix k is removed
\* when the answer starts with it.
remove_prefix(answer, k) ==
    IF startswith(lower(answer), prefixes_to_remove[k])
    THEN strip(drop(answer, Len(prefixes_to_remove[k])))
    ELSE answer

\* The loop of extract_answer_simple over prefixes_to_remove[k..].
RECURSIVE remove_prefixes(_, _)
remove_prefixes(answer, k) ==
    IF k > Len(prefixes_to_remove) THEN answer
    ELSE remove_prefixes(remove_prefix(answer, k), k + 1)

\* Mutant: the lines after the first are kept.
first_line_kept_all(answer) == answer

\* answer.split("\n")[0].strip() when answer holds a line break
first_line(answer) ==
    IF first_newline(answer) # 0
    THEN strip(SubSeq(answer, 1, first_newline(answer) - 1))
    ELSE answer

\* answer[match.end():].strip() when the pattern matches (end > 0)
after_match(answer, end) == IF end # 0 THEN strip(drop(answer, end)) ELSE answer

\* answer with the answer-prefix pattern removed
remove_pattern(answer) == after_match(answer, answer_pattern_end(answer))

\* ZeroShotCoT.extract_answer_simple
extract_answer_simple(extraction_response) ==
    rstrip_dots(remove_prefixes(remove_pattern(first_line(strip(extraction_response))), 1))

\* Number of "*" symbols at position p of s, at most two.
stars(s, p) ==
    IF p <= Len(s) /\ s[p] = "*"
    THEN (IF p + 1 <= Len(s) /\ s[p + 1] = "*" THEN 2 ELSE 1)
    ELSE 0

\* re.search of \*?\*?Final Answer:?\*?\*?\s*(.+?)(?:\n|$) with IGNORECASE.
\* A way through the pattern from position i of s is <<n1, c, n2, w>>: n1
\* stars, the tag, c colons, n2 stars, w whitespace symbols, and then the
\* group, which needs one symbol that is not a line break.
final_answer_way(s, i, t) ==
    /\ t[1] <= stars(s, i)
    /\ i + t[1] <= Len(s)
    /\ lower_sym(s[i + t[1]]) = "final answer"
    /\ t[2] = 1 => (i + t[1] + 1 <= Len(s) /\ s[i + t[1] + 1] = ":")
    /\ t[3] <= stars(s, i + t[1] + 1 + t[2])
    /\ t[4] <= ws_run(s, i + t[1] + 1 + t[2] + t[3])
    /\ i + t[1] + 1 + t[2] + t[3] + t[4] <= Len(s)
    /\ s[i + t[1] + 1 + t[2] + t[3] + t[4]] # "\n"

final_answer_ways(s, i) ==
    {t \in (0..2) \X (0..1) \X (0..2) \X (0..Len(s)) : final_answer_way(s, i, t)}

\* The optional parts and \s* are greedy and are given up in the engine's
\* backtracking order: way t is tried before way u.
tried_before(t, u) ==
    \/ t[1] > u[1]
    \/ t[1] = u[1] /\ t[2] > u[2]
    \/ t[1] = u[1] /\ t[2] = u[2] /\ t[3] > u[3]
    \/ t[1] = u[1] /\ t[2] = u[2] /\ t[3] = u[3] /\ t[4] > u[4]

first_tried(ways) == CHOOSE t \in ways : \A u \in ways : u = t \/ tried_before(t, u)

\* The lazy group that starts at position pg runs to the end of its line.
group_end(s, pg, nl) == IF nl = 0 THEN Len(s) ELSE pg + nl - 1

match_from(s, i, pg) == <<i, pg, group_end(s, pg, first_newline(drop(s, pg)))>>

\* The match that starts at position i, as <<start, group start, group end>>.
final_answer_match(s, i, t) == match_from(s, i, i + t[1] + 1 + t[2] + t[3] + t[4])

final_answer_match_at(s, i) == final_answer_match(s, i, first_tried(final_answer_ways(s, i)))

\* The positions of s where a match starts.
match_starts(s) == {i \in 1..Len(s) : final_answer_ways(s, i) # {}}

leftmost(starts) == CHOOSE i \in starts : \A j \in starts : i <= j

search_from(s, starts) ==
    IF starts = {} THEN <<>> ELSE final_answer_match_at(s, leftmost(starts))

\* The leftmost match of the pattern in s, <<>> when there is none.
final_answer_search(s) == search_from(s, match_starts(s))

\* A variant of the fallback that trims the joined lines as well.
last_line_split_trimmed(t, nl) ==
    << strip(drop(t, nl)), strip(IF nl # 0 THEN SubSeq(t, 1, nl - 1) ELSE <<>>) >>

\* lines[-1].strip() and "\n".join(lines[:-1]) of the trimmed text t whose
\* last line break is at nl (0: one line)
last_line_split(t, nl) ==
    << strip(drop(t, nl)), IF nl # 0 THEN SubSeq(t, 1, nl - 1) ELSE <<>> >>

parse_match(response_text, m) ==
    IF m # <<>>
    THEN << strip(SubSeq(response_text, m[2], m[3])),
            strip(SubSeq(response_text, 1, m[1] - 1)) >>
    ELSE last_line_split(strip(response_text), last_newline(strip(response_text)))

\* ZeroShotCoTSinglePass.parse_response: <<final_answer, reasoning_trace>>
parse_response(response_text) == parse_match(response_text, final_answer_search(response_text))

(***************************************************************************)
(* The state: executors, the threads that call run(), the Port's view.     *)
(***************************************************************************)
Threads == {"t1", "t2"}
\* The thread of the single-threaded program.
Main == "t1"
Executors == {"e1", "e2"}
Classes == {"Input", "ZeroShotCoT", "ZeroShotCoTSinglePass"}

\* Arguments of run() and of the constructors, and what the Port may answer.
Questions == {<<"Q">>}
SystemPrompts == {None}
Instructions == {None}
\* Sampling temperatures, in tenths.
Temperatures == {0, 7}
CotTriggerArgs == {None}
ExtractionPromptArgs == {None}
Contents ==
    { <<" ", "answer", " ", "is", ":", " ", "4", ".", "\n">>,
      <<"Step", "\n", "Final Answer", ":", " ", "15">> }
\* models.base.LLMResponse (raw_response is opaque and never read)
LLMResponses ==
    [content : Contents, model_name : {"mock-model"},
     input_tokens : 0..MaxTok, output_tokens : 0..MaxTok]
\* The responses the mocked Port of the sequential runs can return.
PortResponses ==
    {r \in LLMResponses : r.input_tokens + r.output_tokens \in {0, MaxTok}}

VARIABLES
    exec,      \* exec[e]: the executor instance e (BaseBaseline and subclass fields)
    pc,        \* pc[t]: the statement thread t executes next ("idle": not in run())
    frame,     \* frame[t]: the locals of t's run(), call_llm and create_response
    response,  \* response[t]: the caller's variable holding what run() returned
    outcome,   \* outcome[t]: how t's latest run() ended
    heap,      \* the list objects (intermediate_steps) by identity
    calls,     \* calls[t]: the Port calls of t's latest run(), as the Port saw them
    ghost,     \* ghost[t]: what t's latest run() found when it started
    port,      \* the responses the Port the executors are bound to may give
    observed,  \* observed[t]: what t last read from the record it holds
    call,      \* a direct call of a text function: its argument, locals and result
    efficiency,\* the Efficiency aggregator and what its last operation returned
    statistics \* the AccuracyStatistics aggregator and what was last read from it

\* The variables of the executors and their callers.
run_vars == <<exec, pc, frame, response, outcome, heap, calls, ghost, port, observed>>

vars == <<exec, pc, frame, response, outcome, heap, calls, ghost, port, observed,
          call, efficiency, statistics>>

\* BaseBaseline.__init__ (with the subclass's __init__ arguments)
new_executor(cls, cot_trigger, extraction_prompt) ==
    [ constructed |-> TRUE,
      cls |-> cls,
      baseline_name |-> CASE cls = "Input" -> "ZeroShot"
                          [] cls = "ZeroShotCoT" -> "ZeroShotCoT"
                          [] OTHER -> "ZeroShotCoT-SinglePass",
      total_input_tokens |-> 0,
      total_output_tokens |-> 0,
      num_llm_calls |-> 0,
      cot_trigger |-> IF cls = "ZeroShotCoT"
                      THEN or_default(cot_trigger, COT_TRIGGER) ELSE <<>>,
      extraction_prompt |-> IF cls = "ZeroShotCoT"
                            THEN or_default(extraction_prompt, DEFAULT_EXTRACTION_PROMPT)
                            ELSE <<>> ]

\* An executor that was never constructed.
NoExecutor ==
    [ constructed |-> FALSE, cls |-> "Input", baseline_name |-> "",
      total_input_tokens |-> 0, total_output_tokens |-> 0, num_llm_calls |-> 0,
      cot_trigger |-> <<>>, extraction_prompt |-> <<>> ]

NewExecutors ==
    { new_executor(cls, tr, ep) :
        cls \in Classes, tr \in CotTriggerArgs, ep \in ExtractionPromptArgs }

\* The locals of a thread that is not in run().
NoFrame ==
    [ self |-> "e1", question |-> <<>>, system_prompt |-> None, instruction |-> None,
      temperature |-> 0, extract_answer |-> TRUE,
      stage |-> 0, prompt |-> <<>>, llm_response |-> <<>>, tmp |-> 0,
      reasoning_prompt |-> <<>>, reasoning_response |-> <<>>, reasoning_trace |-> <<>>,
      steps |-> 0, final_answer |-> <<>>, out_reasoning_trace |-> <<>>,
      metadata |-> <<>>, snap_in |-> 0, snap_out |-> 0 ]

\* What is remembered of a thread's latest run(): the executor and the
\* arguments it was called with; dirty: the executor still held the counts of
\* an earlier run() that a Port failure aborted; overlap: another thread's
\* run() used the same executor while this one was in progress; made: the
\* number of BaselineResponse objects the run constructed.
NoGhost ==
    [ self |-> "e1",
      args |-> [ question |-> <<>>, system_prompt |-> None, instruction |-> None,
                 temperature |-> 0, extract_answer |-> TRUE ],
      dirty |-> FALSE, overlap |-> FALSE, made |-> 0 ]

(***************************************************************************)
(* List objects.  A cell is a list object; a record and a frame hold a     *)
(* list by the number of its cell (0: none).  Cells no one holds are       *)
(* freed.                                                                  *)
(***************************************************************************)
HeapCells == 1..(3 * Cardinality(Threads))
FreeCell == [used |-> FALSE, items |-> <<>>]

\* A new list object: the first free cell.
alloc(h) == CHOOSE i \in HeapCells : ~h[i].used /\ \A j \in 1..(i - 1) : h[j].used

\* list.append
append(h, id, item) == [h EXCEPT ![id].items = Append(@, item)]

collect(h, resp, fr) ==
    LET held == {resp[t][1].intermediate_steps : t \in {u \in Threads : resp[u] # <<>>}}
                \cup {fr[t].steps : t \in Threads}
    IN  [i \in HeapCells |-> IF i \in held THEN h[i] ELSE FreeCell]

(***************************************************************************)
(* Response Record                                                         *)
(***************************************************************************)
\* Mutant: the output tokens are left out of the total.
total_tokens_input_only(r) == r.total_input_tokens

\* BaselineResponse.total_tokens
total_tokens(r) == r.total_input_tokens + r.total_output_tokens

\* BaselineResponse.to_dict, with the list the record holds read from h
to_dict(r, h) ==
    [ final_answer |-> r.final_answer,
      reasoning_trace |-> r.reasoning_trace,
      total_input_tokens |-> r.total_input_tokens,
      total_output_tokens |-> r.total_output_tokens,
      total_tokens |-> total_tokens(r),
      num_llm_calls |-> r.num_llm_calls,
      baseline_type |-> r.baseline_type,
      intermediate_steps |-> h[r.intermediate_steps].items,
      metadata |-> r.metadata ]

\* Nothing read yet.  total_tokens: the latest read of the property, with the
\* two fields as they were at that read; dict: the latest to_dict() result.
NoObserved == [ total_tokens |-> <<>>, dict |-> <<>> ]

\* No text function is being called directly.
NoCall ==
    [ fn |-> "none", pc |-> "done", arg |-> <<>>, answer |-> <<>>, k |-> 0,
      matched |-> FALSE, removed |-> 0, expect |-> <<>>, result |-> <<>> ]

\* No Efficiency and no AccuracyStatistics object has been constructed.
NoEfficiency ==
    [ constructed |-> FALSE, num_tasks |-> 0, samples |-> <<>>, recorded |-> 0, last |-> <<>> ]
NoStatistics == [ constructed |-> FALSE, accuracy_list |-> <<>>, added |-> <<>>, last |-> <<>> ]

(***************************************************************************)
(* run(), statement by statement.  A read or a write of an executor        *)
(* counter is one step; what a thread does on its own locals is part of    *)
(* the step before.                                                        *)
(***************************************************************************)
self(t) == frame[t].self

\* What run() may be called with on an executor of class cls; an executor
\* that has no extract_answer option ignores it (**kwargs).
RunArgs(cls) ==
    [ question : Questions, system_prompt : SystemPrompts, instruction : Instructions,
      temperature : Temperatures,
      extract_answer : IF cls = "ZeroShotCoT" THEN BOOLEAN ELSE {TRUE} ]

\* Entering call_llm(prompt, temperature), up to the call of llm.generate
\* (basebaseline.py line 117): the Port call is in flight.
enter_call_llm(t, fr, prompt, temperature) ==
    /\ calls' = [calls EXCEPT ![t] =
                   Append(@, [ prompt |-> prompt, temperature |-> temperature,
                               status |-> "pending", returned |-> <<>>,
                               before |-> [ total_input_tokens |-> exec[fr.self].total_input_tokens,
                                            total_output_tokens |-> exec[fr.self].total_output_tokens,
                                            num_llm_calls |-> exec[fr.self].num_llm_calls ] ])]
    /\ frame' = [frame EXCEPT ![t] = [fr EXCEPT !.prompt = prompt, !.llm_response = <<>>]]
    /\ pc' = [pc EXCEPT ![t] = "generate"]

\* A caller invokes run(question, ...) on executor e: the frame is set up and
\* reset_counters() is entered.
Run(t, e, args) ==
    /\ pc[t] = "idle"
    /\ exec[e].constructed
    /\ frame' = [frame EXCEPT ![t] =
                   [NoFrame EXCEPT !.self = e,
                                   !.question = args.question,
                                   !.system_prompt = args.system_prompt,
                                   !.instruction = args.instruction,
                                   !.temperature = args.temperature,
                                   !.extract_answer = args.extract_answer,
                                   !.stage = 1]]
    /\ pc' = [pc EXCEPT ![t] = "reset_in"]
    /\ outcome' = [outcome EXCEPT ![t] = "running"]
    /\ calls' = [calls EXCEPT ![t] = <<>>]
    /\ ghost' = [u \in Threads |->
                   IF u = t
                   THEN [ self |-> e,
                          args |-> args,
                          dirty |-> exec[e].num_llm_calls > 0 /\ outcome[t] = "raised",
                          overlap |-> \E v \in Threads \ {t} : pc[v] # "idle" /\ self(v) = e,
                          made |-> 0 ]
                   ELSE IF pc[u] # "idle" /\ self(u) = e
                        THEN [ghost[u] EXCEPT !.overlap = TRUE]
                        ELSE ghost[u]]
    /\ UNCHANGED <<exec, response, heap, port, observed, call, efficiency, statistics>>

\* reset_counters, line 102
ResetIn(t) ==
    /\ pc[t] = "reset_in"
    /\ exec' = [exec EXCEPT ![self(t)].total_input_tokens = 0]
    /\ pc' = [pc EXCEPT ![t] = "reset_out"]
    /\ UNCHANGED <<frame, response, outcome, heap, calls, ghost, port, observed, call, efficiency, statistics>>

\* reset_counters, line 103
ResetOut(t) ==
    /\ pc[t] = "reset_out"
    /\ exec' = [exec EXCEPT ![self(t)].total_output_tokens = 0]
    /\ pc' = [pc EXCEPT ![t] = "reset_calls"]
    /\ UNCHANGED <<frame, response, outcome, heap, calls, ghost, port, observed, call, efficiency, statistics>>

\* Mutant: reset_counters leaves num_llm_calls as it is.
ResetCalls_kept(t) ==
    /\ pc[t] = "reset_calls"
    /\ pc' = [pc EXCEPT ![t] = "build"]
    /\ UNCHANGED <<exec, frame, response, outcome, heap, calls, ghost, port, observed, call, efficiency, statistics>>

\* Mutant: num_llm_calls is one counter shared by every executor instance.
ResetCalls_every_instance(t) ==
    /\ pc[t] = "reset_calls"
    /\ exec' = [e \in Executors |-> [exec[e] EXCEPT !.num_llm_calls = 0]]
    /\ pc' = [pc EXCEPT ![t] = "build"]
    /\ UNCHANGED <<frame, response, outcome, heap, calls, ghost, port, observed, call, efficiency, statistics>>

\* reset_counters, line 104
ResetCalls(t) ==
    /\ pc[t] = "reset_calls"
    /\ exec' = [exec EXCEPT ![self(t)].num_llm_calls = 0]
    /\ pc' = [pc EXCEPT ![t] = "build"]
    /\ UNCHANGED <<frame, response, outcome, heap, calls, ghost, port, observed, call, efficiency, statistics>>

\* Input.run, lines 94-95: the prompt is built and call_llm is entered.
InputBuild(t) ==
    /\ pc[t] = "build"
    /\ exec[self(t)].cls = "Input"
    /\ enter_call_llm(t, frame[t],
                      build_prompt(frame[t].question, frame[t].system_prompt,
                                   frame[t].instruction),
                      frame[t].temperature)
    /\ UNCHANGED <<exec, response, outcome, heap, ghost, port, observed, call, efficiency, statistics>>

\* Mutant: run() clears and reuses the list object its last record holds.
CoTBuild_reused_list(t) ==
    /\ pc[t] = "build"
    /\ exec[self(t)].cls = "ZeroShotCoT"
    /\ LET id == IF response[t] # <<>> THEN response[t][1].intermediate_steps
                 ELSE alloc(heap)
           p  == build_reasoning_prompt(exec[self(t)].cot_trigger, frame[t].question,
                                        frame[t].system_prompt, frame[t].instruction)
       IN  /\ heap' = [heap EXCEPT ![id] = [used |-> TRUE, items |-> <<>>]]
           /\ enter_call_llm(t, [frame[t] EXCEPT !.steps = id, !.reasoning_prompt = p],
                             p, frame[t].temperature)
    /\ UNCHANGED <<exec, response, outcome, ghost, port, observed, call, efficiency, statistics>>

\* ZeroShotCoT.run, lines 167-173: the list of steps is created, the reasoning
\* prompt is built and call_llm is entered.
CoTBuild(t) ==
    /\ pc[t] = "build"
    /\ exec[self(t)].cls = "ZeroShotCoT"
    /\ LET id == alloc(heap)
           p  == build_reasoning_prompt(exec[self(t)].cot_trigger, frame[t].question,
                                        frame[t].system_prompt, frame[t].instruction)
       IN  /\ heap' = [heap EXCEPT ![id] = [used |-> TRUE, items |-> <<>>]]
           /\ enter_call_llm(t, [frame[t] EXCEPT !.steps = id, !.reasoning_prompt = p],
                             p, frame[t].temperature)
    /\ UNCHANGED <<exec, response, outcome, ghost, port, observed, call, efficiency, statistics>>

\* ZeroShotCoTSinglePass.run, lines 303-304
SinglePassBuild(t) ==
    /\ pc[t] = "build"
    /\ exec[self(t)].cls = "ZeroShotCoTSinglePass"
    /\ enter_call_llm(t, frame[t],
                      build_prompt_single_pass(frame[t].question, frame[t].system_prompt,
                                               frame[t].instruction),
                      frame[t].temperature)
    /\ UNCHANGED <<exec, response, outcome, heap, ghost, port, observed, call, efficiency, statistics>>

\* The Port returns r from generate (line 117).
PortReturn(t, r) ==
    /\ pc[t] = "generate"
    /\ calls' = [calls EXCEPT ![t][Len(calls[t])].status = "returned",
                              ![t][Len(calls[t])].returned = <<r>>]
    /\ frame' = [frame EXCEPT ![t].llm_response = <<r>>]
    /\ pc' = [pc EXCEPT ![t] = "add_in_load"]
    /\ UNCHANGED <<exec, response, outcome, heap, ghost, port, observed, call, efficiency, statistics>>

\* Mutant: call_llm catches the failure and returns an empty response.
PortRaise_swallowed(t) ==
    /\ pc[t] = "generate"
    /\ calls' = [calls EXCEPT ![t][Len(calls[t])].status = "raised"]
    /\ frame' = [frame EXCEPT ![t].llm_response =
                    << [ content |-> <<>>, model_name |-> "mock-model",
                         input_tokens |-> 0, output_tokens |-> 0 ] >>]
    /\ pc' = [pc EXCEPT ![t] = "return_llm"]
    /\ UNCHANGED <<exec, response, outcome, heap, ghost, port, observed, call, efficiency, statistics>>

\* A variant of call_llm that counts the call before it invokes generate, so
\* that a call that raises is counted too.
PortRaise_counts_call(t) ==
    /\ pc[t] = "generate"
    /\ calls' = [calls EXCEPT ![t][Len(calls[t])].status = "raised"]
    /\ exec' = [exec EXCEPT ![self(t)].num_llm_calls = @ + 1]
    /\ frame' = [frame EXCEPT ![t] = NoFrame]
    /\ pc' = [pc EXCEPT ![t] = "idle"]
    /\ outcome' = [outcome EXCEPT ![t] = "raised"]
    /\ heap' = collect(heap, response, frame')
    /\ UNCHANGED <<response, ghost, port, observed, call, efficiency, statistics>>

\* generate raises (line 117).  Neither call_llm nor any run() catches: the
\* exception unwinds both frames and reaches the caller of run(), whose
\* variable is not assigned.
PortRaise(t) ==
    /\ pc[t] = "generate"
    /\ calls' = [calls EXCEPT ![t][Len(calls[t])].status = "raised"]
    /\ frame' = [frame EXCEPT ![t] = NoFrame]
    /\ pc' = [pc EXCEPT ![t] = "idle"]
    /\ outcome' = [outcome EXCEPT ![t] = "raised"]
    /\ heap' = collect(heap, response, frame')
    /\ UNCHANGED <<exec, response, ghost, port, observed, call, efficiency, statistics>>

\* call_llm, line 118: self.total_input_tokens += response.input_tokens
AddInLoad(t) ==
    /\ pc[t] = "add_in_load"
    /\ frame' = [frame EXCEPT ![t].tmp = exec[self(t)].total_input_tokens]
    /\ pc' = [pc EXCEPT ![t] = "add_in_store"]
    /\ UNCHANGED <<exec, response, outcome, heap, calls, ghost, port, observed, call, efficiency, statistics>>

AddInStore(t) ==
    /\ pc[t] = "add_in_store"
    /\ exec' = [exec EXCEPT ![self(t)].total_input_tokens =
                   frame[t].tmp + frame[t].llm_response[1].input_tokens]
    /\ pc' = [pc EXCEPT ![t] = "add_out_load"]
    /\ UNCHANGED <<frame, response, outcome, heap, calls, ghost, port, observed, call, efficiency, statistics>>

\* call_llm, line 119: self.total_output_tokens += response.output_tokens
AddOutLoad(t) ==
    /\ pc[t] = "add_out_load"
    /\ frame' = [frame EXCEPT ![t].tmp = exec[self(t)].total_output_tokens]
    /\ pc' = [pc EXCEPT ![t] = "add_out_store"]
    /\ UNCHANGED <<exec, response, outcome, heap, calls, ghost, port, observed, call, efficiency, statistics>>

\* Mutant: the input token count is added to the output total.
AddOutStore_adds_input(t) ==
    /\ pc[t] = "add_out_store"
    /\ exec' = [exec EXCEPT ![self(t)].total_output_tokens =
                   frame[t].tmp + frame[t].llm_response[1].input_tokens]
    /\ pc' = [pc EXCEPT ![t] = "add_calls_load"]
    /\ UNCHANGED <<frame, response, outcome, heap, calls, ghost, port, observed, call, efficiency, statistics>>

AddOutStore(t) ==
    /\ pc[t] = "add_out_store"
    /\ exec' = [exec EXCEPT ![self(t)].total_output_tokens =
                   frame[t].tmp + frame[t].llm_response[1].output_tokens]
    /\ pc' = [pc EXCEPT ![t] = "add_calls_load"]
    /\ UNCHANGED <<frame, response, outcome, heap, calls, ghost, port, observed, call, efficiency, statistics>>

\* call_llm, line 120: self.num_llm_calls += 1
AddCallsLoad(t) ==
    /\ pc[t] = "add_calls_load"
    /\ frame' = [frame EXCEPT ![t].tmp = exec[self(t)].num_llm_calls]
    /\ pc' = [pc EXCEPT ![t] = "add_calls_store"]
    /\ UNCHANGED <<exec, response, outcome, heap, calls, ghost, port, observed, call, efficiency, statistics>>

AddCallsStore(t) ==
    /\ pc[t] = "add_calls_store"
    /\ exec' = [exec EXCEPT ![self(t)].num_llm_calls = frame[t].tmp + 1]
    /\ pc' = [pc EXCEPT ![t] = "return_llm"]
    /\ UNCHANGED <<frame, response, outcome, heap, calls, ghost, port, observed, call, efficiency, statistics>>

\* What call_llm returns at line 121: its local `response`.
call_llm_result(t) == frame[t].llm_response[1]

\* Entering create_response(final_answer, reasoning_trace, intermediate_steps,
\* metadata), up to the first counter read (line 146).
enter_create_response(t, fr, final_answer, reasoning_trace, steps, metadata) ==
    /\ frame' = [frame EXCEPT ![t] =
                   [fr EXCEPT !.final_answer = final_answer,
                              !.out_reasoning_trace = reasoning_trace,
                              !.steps = steps,
                              !.metadata = metadata]]
    /\ pc' = [pc EXCEPT ![t] = "snap_in"]

\* Mutant: the zero-shot answer goes through answer extraction.
InputAfterCall_extracts(t) ==
    /\ pc[t] = "return_llm"
    /\ exec[self(t)].cls = "Input"
    /\ LET r  == call_llm_result(t)
           id == alloc(heap)
       IN  /\ heap' = [heap EXCEPT ![id] = [used |-> TRUE, items |-> <<>>]]
           /\ enter_create_response(t, frame[t], extract_answer_simple(r.content), <<>>, id,
                                    [prompt |-> frame[t].prompt, model |-> r.model_name])
    /\ UNCHANGED <<exec, response, outcome, calls, ghost, port, observed, call, efficiency, statistics>>

\* Input.run, lines 95-105: call_llm has returned; the arguments of
\* create_response are evaluated.
InputAfterCall(t) ==
    /\ pc[t] = "return_llm"
    /\ exec[self(t)].cls = "Input"
    /\ LET r  == call_llm_result(t)
           id == alloc(heap)
       IN  /\ heap' = [heap EXCEPT ![id] = [used |-> TRUE, items |-> <<>>]]
           /\ enter_create_response(t, frame[t], strip(r.content), <<>>, id,
                                    [prompt |-> frame[t].prompt, model |-> r.model_name])
    /\ UNCHANGED <<exec, response, outcome, calls, ghost, port, observed, call, efficiency, statistics>>

\* Mutant: the extraction prompt embeds the reasoning output untrimmed.
CoTExtract_untrimmed(t) ==
    /\ pc[t] = "return_llm"
    /\ exec[self(t)].cls = "ZeroShotCoT"
    /\ frame[t].stage = 1
    /\ frame[t].extract_answer
    /\ LET r     == call_llm_result(t)
           trace == strip(r.content)
       IN  /\ heap' = append(heap, frame[t].steps, <<"[Reasoning]", "\n">> \o trace)
           /\ enter_call_llm(t, [frame[t] EXCEPT !.reasoning_response = <<r>>,
                                                 !.reasoning_trace = trace,
                                                 !.stage = 2],
                             build_extraction_prompt(exec[self(t)].cot_trigger,
                                                     exec[self(t)].extraction_prompt,
                                                     frame[t].question, r.content),
                             0)
    /\ UNCHANGED <<exec, response, outcome, ghost, port, observed, call, efficiency, statistics>>

\* Mutant: the extraction call is made at the caller's temperature.
CoTExtract_caller_temperature(t) ==
    /\ pc[t] = "return_llm"
    /\ exec[self(t)].cls = "ZeroShotCoT"
    /\ frame[t].stage = 1
    /\ frame[t].extract_answer
    /\ LET r     == call_llm_result(t)
           trace == strip(r.content)
       IN  /\ heap' = append(heap, frame[t].steps, <<"[Reasoning]", "\n">> \o trace)
           /\ enter_call_llm(t, [frame[t] EXCEPT !.reasoning_response = <<r>>,
                                                 !.reasoning_trace = trace,
                                                 !.stage = 2],
                             build_extraction_prompt(exec[self(t)].cot_trigger,
                                                     exec[self(t)].extraction_prompt,
                                                     frame[t].question, trace),
                             frame[t].temperature)
    /\ UNCHANGED <<exec, response, outcome, ghost, port, observed, call, efficiency, statistics>>

\* ZeroShotCoT.run, lines 173-181 with extract_answer true: the reasoning call
\* has returned; the extraction prompt is built and call_llm is entered again.
CoTExtract(t) ==
    /\ pc[t] = "return_llm"
    /\ exec[self(t)].cls = "ZeroShotCoT"
    /\ frame[t].stage = 1
    /\ frame[t].extract_answer
    /\ LET r     == call_llm_result(t)
           trace == strip(r.content)
       IN  /\ heap' = append(heap, frame[t].steps, <<"[Reasoning]", "\n">> \o trace)
           /\ enter_call_llm(t, [frame[t] EXCEPT !.reasoning_response = <<r>>,
                                                 !.reasoning_trace = trace,
                                                 !.stage = 2],
                             build_extraction_prompt(exec[self(t)].cot_trigger,
                                                     exec[self(t)].extraction_prompt,
                                                     frame[t].question, trace),
                             0)
    /\ UNCHANGED <<exec, response, outcome, ghost, port, observed, call, efficiency, statistics>>

\* The metadata ZeroShotCoT.run passes to create_response (lines 192-197).
cot_metadata(t, reasoning_response) ==
    [ reasoning_prompt |-> frame[t].reasoning_prompt,
      model |-> reasoning_response.model_name,
      cot_trigger |-> exec[self(t)].cot_trigger,
      extract_answer |-> frame[t].extract_answer ]

\* Mutant: with extract_answer false the answer is still extracted from the
\* trace.
CoTSkipExtraction_extracts(t) ==
    /\ pc[t] = "return_llm"
    /\ exec[self(t)].cls = "ZeroShotCoT"
    /\ frame[t].stage = 1
    /\ ~frame[t].extract_answer
    /\ LET r     == call_llm_result(t)
           trace == strip(r.content)
       IN  /\ heap' = append(heap, frame[t].steps, <<"[Reasoning]", "\n">> \o trace)
           /\ enter_create_response(t, [frame[t] EXCEPT !.reasoning_response = <<r>>,
                                                        !.reasoning_trace = trace],
                                    extract_answer_simple(trace),
                                    exec[self(t)].cot_trigger \o <<" ">> \o trace,
                                    frame[t].steps,
                                    cot_metadata(t, r))
    /\ UNCHANGED <<exec, response, outcome, calls, ghost, port, observed, call, efficiency, statistics>>

\* ZeroShotCoT.run, lines 173-198 with extract_answer false: the reasoning
\* call has returned and the trace is the answer.
CoTSkipExtraction(t) ==
    /\ pc[t] = "return_llm"
    /\ exec[self(t)].cls = "ZeroShotCoT"
    /\ frame[t].stage = 1
    /\ ~frame[t].extract_answer
    /\ LET r     == call_llm_result(t)
           trace == strip(r.content)
       IN  /\ heap' = append(heap, frame[t].steps, <<"[Reasoning]", "\n">> \o trace)
           /\ enter_create_response(t, [frame[t] EXCEPT !.reasoning_response = <<r>>,
                                                        !.reasoning_trace = trace],
                                    trace,
                                    exec[self(t)].cot_trigger \o <<" ">> \o trace,
                                    frame[t].steps,
                                    cot_metadata(t, r))
    /\ UNCHANGED <<exec, response, outcome, calls, ghost, port, observed, call, efficiency, statistics>>

\* A variant in which the second step records the extracted answer, not the
\* raw extraction output.
CoTAfterExtraction_records_answer(t) ==
    /\ pc[t] = "return_llm"
    /\ exec[self(t)].cls = "ZeroShotCoT"
    /\ frame[t].stage = 2
    /\ LET r == call_llm_result(t)
       IN  /\ heap' = append(heap, frame[t].steps,
                             <<"[Extraction]", "\n">> \o extract_answer_simple(r.content))
           /\ enter_create_response(t, frame[t],
                                    extract_answer_simple(r.content),
                                    exec[self(t)].cot_trigger \o <<" ">>
                                        \o frame[t].reasoning_trace,
                                    frame[t].steps,
                                    cot_metadata(t, frame[t].reasoning_response[1]))
    /\ UNCHANGED <<exec, response, outcome, calls, ghost, port, observed, call, efficiency, statistics>>

\* ZeroShotCoT.run, lines 181-198: the extraction call has returned.
CoTAfterExtraction(t) ==
    /\ pc[t] = "return_llm"
    /\ exec[self(t)].cls = "ZeroShotCoT"
    /\ frame[t].stage = 2
    /\ LET r == call_llm_result(t)
       IN  /\ heap' = append(heap, frame[t].steps,
                             <<"[Extraction]", "\n">> \o strip(r.content))
           /\ enter_create_response(t, frame[t],
                                    extract_answer_simple(r.content),
                                    exec[self(t)].cot_trigger \o <<" ">>
                                        \o frame[t].reasoning_trace,
                                    frame[t].steps,
                                    cot_metadata(t, frame[t].reasoning_response[1]))
    /\ UNCHANGED <<exec, response, outcome, calls, ghost, port, observed, call, efficiency, statistics>>

\* ZeroShotCoTSinglePass.run, lines 304-317
SinglePassAfterCall(t) ==
    /\ pc[t] = "return_llm"
    /\ exec[self(t)].cls = "ZeroShotCoTSinglePass"
    /\ LET r      == call_llm_result(t)
           parsed == parse_response(r.content)
           id     == alloc(heap)
       IN  /\ heap' = [heap EXCEPT ![id] = [used |-> TRUE, items |-> <<strip(r.content)>>]]
           /\ enter_create_response(t, frame[t], parsed[1], parsed[2], id,
                                    [ prompt |-> frame[t].prompt, model |-> r.model_name,
                                      single_pass |-> TRUE ])
    /\ UNCHANGED <<exec, response, outcome, calls, ghost, port, observed, call, efficiency, statistics>>

\* create_response, line 146
SnapIn(t) ==
    /\ pc[t] = "snap_in"
    /\ frame' = [frame EXCEPT ![t].snap_in = exec[self(t)].total_input_tokens]
    /\ pc' = [pc EXCEPT ![t] = "snap_out"]
    /\ UNCHANGED <<exec, response, outcome, heap, calls, ghost, port, observed, call, efficiency, statistics>>

\* create_response, line 147
SnapOut(t) ==
    /\ pc[t] = "snap_out"
    /\ frame' = [frame EXCEPT ![t].snap_out = exec[self(t)].total_output_tokens]
    /\ pc' = [pc EXCEPT ![t] = "snap_calls"]
    /\ UNCHANGED <<exec, response, outcome, heap, calls, ghost, port, observed, call, efficiency, statistics>>

\* The BaselineResponse create_response constructs at lines 143-152, given the
\* list object it ends up holding.
new_response(t, steps) ==
    [ final_answer |-> frame[t].final_answer,
      reasoning_trace |-> frame[t].out_reasoning_trace,
      total_input_tokens |-> frame[t].snap_in,
      total_output_tokens |-> frame[t].snap_out,
      num_llm_calls |-> exec[self(t)].num_llm_calls,
      baseline_type |-> exec[self(t)].baseline_name,
      intermediate_steps |-> steps,
      metadata |-> frame[t].metadata ]

\* A variant of create_response that zeroes num_llm_calls once it has read it.
CreateResponse_resets(t) ==
    /\ pc[t] = "snap_calls"
    /\ LET kept == heap[frame[t].steps].items # <<>>
           id   == IF kept THEN frame[t].steps ELSE alloc(heap)
           h    == [heap EXCEPT ![id] = [used |-> TRUE, items |-> heap[frame[t].steps].items]]
       IN  /\ response' = [response EXCEPT ![t] = <<new_response(t, id)>>]
           /\ frame' = [frame EXCEPT ![t] = NoFrame]
           /\ heap' = collect(h, response', frame')
    /\ exec' = [exec EXCEPT ![self(t)].num_llm_calls = 0]
    /\ pc' = [pc EXCEPT ![t] = "idle"]
    /\ outcome' = [outcome EXCEPT ![t] = "returned"]
    /\ ghost' = [ghost EXCEPT ![t].made = @ + 1]
    /\ UNCHANGED <<calls, port, observed, call, efficiency, statistics>>

\* create_response, lines 148-152: the last counter is read, the record is
\* constructed (`intermediate_steps or []` keeps a non-empty list object and
\* replaces an empty one), and run() returns it to its caller.
CreateResponse(t) ==
    /\ pc[t] = "snap_calls"
    /\ LET kept == heap[frame[t].steps].items # <<>>
           id   == IF kept THEN frame[t].steps ELSE alloc(heap)
           h    == [heap EXCEPT ![id] = [used |-> TRUE, items |-> heap[frame[t].steps].items]]
       IN  /\ response' = [response EXCEPT ![t] = <<new_response(t, id)>>]
           /\ frame' = [frame EXCEPT ![t] = NoFrame]
           /\ heap' = collect(h, response', frame')
    /\ pc' = [pc EXCEPT ![t] = "idle"]
    /\ outcome' = [outcome EXCEPT ![t] = "returned"]
    /\ ghost' = [ghost EXCEPT ![t].made = @ + 1]
    /\ UNCHANGED <<exec, calls, port, observed, call, efficiency, statistics>>

(***************************************************************************)
(* The single-threaded program: one executor, one thread calling run().    *)
(***************************************************************************)
Init ==
    /\ exec \in {f \in [Executors -> NewExecutors \cup {NoExecutor}] :
                    f["e1"].constructed /\ ~f["e2"].constructed}
    /\ pc = [t \in Threads |-> "idle"]
    /\ frame = [t \in Threads |-> NoFrame]
    /\ response = [t \in Threads |-> <<>>]
    /\ outcome = [t \in Threads |-> "none"]
    /\ heap = [i \in HeapCells |-> FreeCell]
    /\ calls = [t \in Threads |-> <<>>]
    /\ ghost = [t \in Threads |-> NoGhost]
    /\ port = PortResponses
    /\ observed = [t \in Threads |-> NoObserved]
    /\ call = NoCall
    /\ efficiency = NoEfficiency
    /\ statistics = NoStatistics

\* A step of thread t inside run().
Step(t) ==
    \/ ResetIn(t) \/ ResetOut(t) \/ ResetCalls(t)
    \/ InputBuild(t) \/ CoTBuild(t) \/ SinglePassBuild(t)
    \/ \E r \in port : PortReturn(t, r)
    \/ PortRaise(t)
    \/ AddInLoad(t) \/ AddInStore(t)
    \/ AddOutLoad(t) \/ AddOutStore(t)
    \/ AddCallsLoad(t) \/ AddCallsStore(t)
    \/ InputAfterCall(t)
    \/ CoTExtract(t) \/ CoTSkipExtraction(t) \/ CoTAfterExtraction(t)
    \/ SinglePassAfterCall(t)
    \/ SnapIn(t) \/ SnapOut(t) \/ CreateResponse(t)

\* The program calls run() when no run() is in progress.
Next ==
    \/ \E e \in Executors : \E args \in RunArgs(exec[e].cls) : Run(Main, e, args)
    \/ Step(Main)

Spec == Init /\ [][Next]_vars

(***************************************************************************)
(* Concurrent callers: two executors of one strategy are constructed and   *)
(* two threads call run(), the first on executor e1 and the second on e1   *)
(* (a shared instance) or on e2 (an instance of its own); their steps      *)
(* interleave.                                                             *)
(***************************************************************************)
\* The executor a concurrent caller may use.
ConcExecutors(t) == IF t = Main THEN {"e1"} ELSE Executors
\* What the concurrent callers call run() with.
ConcRunArgs(cls) == {a \in RunArgs(cls) : a.temperature = 0}

ConcInit ==
    /\ exec \in {f \in [Executors -> NewExecutors] : f["e1"] = f["e2"]}
    /\ pc = [t \in Threads |-> "idle"]
    /\ frame = [t \in Threads |-> NoFrame]
    /\ response = [t \in Threads |-> <<>>]
    /\ outcome = [t \in Threads |-> "none"]
    /\ heap = [i \in HeapCells |-> FreeCell]
    /\ calls = [t \in Threads |-> <<>>]
    /\ ghost = [t \in Threads |-> NoGhost]
    /\ port = {r \in LLMResponses :
                  /\ r.content = <<"Step", "\n", "Final Answer", ":", " ", "15">>
                  /\ r.input_tokens = MaxTok /\ r.output_tokens = MaxTok}
    /\ observed = [t \in Threads |-> NoObserved]
    /\ call = NoCall
    /\ efficiency = NoEfficiency
    /\ statistics = NoStatistics

\* Each thread is one logical run: it calls run() once.
ConcRun(t, e, args) ==
    /\ outcome[t] = "none"
    /\ Run(t, e, args)

ConcNext ==
    \E t \in Threads :
        \/ \E e \in ConcExecutors(t) : \E args \in ConcRunArgs(exec[e].cls) :
              ConcRun(t, e, args)
        \/ Step(t)

ConcSpec == ConcInit /\ [][ConcNext]_vars

(***************************************************************************)
(* The Response Record in its caller's hands: a dataclass that is not      *)
(* frozen, so its fields can be assigned; total_tokens and to_dict() are   *)
(* evaluated on the fields as they are when read.                          *)
(***************************************************************************)
\* Values a caller assigns to a token field.
FieldValues == 0..(2 * MaxTok)

\* BaselineResponse(...) as its dataclass __init__ constructs it.
NewRecords ==
    [ final_answer : {<<"4">>}, reasoning_trace : {<<>>},
      total_input_tokens : 0..MaxTok, total_output_tokens : 0..MaxTok,
      num_llm_calls : 0..1, baseline_type : {"", "ZeroShot"},
      intermediate_steps : {1}, metadata : {<<>>} ]

RecordInit ==
    /\ exec = [e \in Executors |-> NoExecutor]
    /\ pc = [t \in Threads |-> "idle"]
    /\ frame = [t \in Threads |-> NoFrame]
    /\ response \in {f \in [Threads -> {<<>>} \cup {<<r>> : r \in NewRecords}] :
                        f[Main] # <<>> /\ \A t \in Threads \ {Main} : f[t] = <<>>}
    /\ outcome = [t \in Threads |-> "none"]
    /\ heap = [i \in HeapCells |-> IF i = 1 THEN [used |-> TRUE, items |-> <<>>] ELSE FreeCell]
    /\ calls = [t \in Threads |-> <<>>]
    /\ ghost = [t \in Threads |-> NoGhost]
    /\ port = {}
    /\ observed = [t \in Threads |-> NoObserved]
    /\ call = NoCall
    /\ efficiency = NoEfficiency
    /\ statistics = NoStatistics

\* record.total_input_tokens = v
SetInputTokens(t, v) ==
    /\ response[t] # <<>>
    /\ response' = [response EXCEPT ![t][1].total_input_tokens = v]
    /\ UNCHANGED <<exec, pc, frame, outcome, heap, calls, ghost, port, observed, call, efficiency, statistics>>

\* record.total_output_tokens = v
SetOutputTokens(t, v) ==
    /\ response[t] # <<>>
    /\ response' = [response EXCEPT ![t][1].total_output_tokens = v]
    /\ UNCHANGED <<exec, pc, frame, outcome, heap, calls, ghost, port, observed, call, efficiency, statistics>>

\* record.total_tokens is read.
ReadTotalTokens(t) ==
    /\ response[t] # <<>>
    /\ observed' = [observed EXCEPT ![t].total_tokens =
                      << [ value |-> total_tokens(response[t][1]),
                           total_input_tokens |-> response[t][1].total_input_tokens,
                           total_output_tokens |-> response[t][1].total_output_tokens ] >>]
    /\ UNCHANGED <<exec, pc, frame, response, outcome, heap, calls, ghost, port, call, efficiency, statistics>>

\* record.to_dict() is called.
ToDict(t) ==
    /\ response[t] # <<>>
    /\ observed' = [observed EXCEPT ![t].dict = <<to_dict(response[t][1], heap)>>]
    /\ UNCHANGED <<exec, pc, frame, response, outcome, heap, calls, ghost, port, call, efficiency, statistics>>

RecordNext ==
    \/ \E v \in FieldValues : SetInputTokens(Main, v)
    \/ \E v \in FieldValues : SetOutputTokens(Main, v)
    \/ ReadTotalTokens(Main)
    \/ ToDict(Main)

RecordSpec == RecordInit /\ [][RecordNext]_vars

(***************************************************************************)
(* extract_answer_simple called directly, statement by statement.          *)
(***************************************************************************)
\* All texts of at most n symbols of alphabet.
Texts(alphabet, n) == UNION {[1..k -> alphabet] : k \in 0..n}

ExtractAlphabet == {" ", "\n", ":", "is", "=", "answer", ".", "5"}

RECURSIVE dots(_)
dots(n) == IF n = 0 THEN <<>> ELSE <<".">> \o dots(n - 1)

\* The values an answer phrase may carry ("Istanbul" holds the letters "Is").
Values == { <<"42">>, <<"New", " ", "York">>, <<"3", ".", "14">>, <<"Is", "tanbul">> }

\* An answer phrase: the parts of the extraction pattern, `gap` between them,
\* the value, trailing periods and further lines.
Phrase(therefore, gap, the_, is, sep, value, ndots, rest) ==
    therefore \o gap \o the_ \o gap \o <<"answer">> \o gap \o is \o gap \o sep \o gap
        \o value \o dots(ndots) \o rest

\* A value that starts with the letters "is" comes after the word "is", so
\* that the phrase reads in one way only.
Phrases ==
    { ph \in { [ text |-> Phrase(th, g, t, i, sp, v, n, r), value |-> v, is |-> i ] :
                 th \in {<<>>, <<"Therefore">>, <<"therefore", ",">>},
                 g \in {<<>>, <<" ">>},
                 t \in {<<>>, <<"the">>},
                 i \in {<<>>, <<"is">>},
                 sp \in {<<>>, <<":">>, <<"=">>},
                 v \in Values,
                 n \in 0..MaxDots,
                 r \in {<<>>, <<"\n", "is", " ", "9", ".">>} } :
        ph.is # <<>> \/ lower_sym(ph.value[1]) # "is" }

\* extract_answer_simple(arg) is entered; expect is the value of the phrase
\* arg was built from, if it was.
extract_call(arg, expect) ==
    [ fn |-> "extract_answer_simple", pc |-> "strip", arg |-> arg, answer |-> <<>>,
      k |-> 1, matched |-> FALSE, removed |-> 0, expect |-> expect, result |-> <<>> ]

ExtractInit ==
    /\ exec = [e \in Executors |-> NoExecutor]
    /\ pc = [t \in Threads |-> "idle"]
    /\ frame = [t \in Threads |-> NoFrame]
    /\ response = [t \in Threads |-> <<>>]
    /\ outcome = [t \in Threads |-> "none"]
    /\ heap = [i \in HeapCells |-> FreeCell]
    /\ calls = [t \in Threads |-> <<>>]
    /\ ghost = [t \in Threads |-> NoGhost]
    /\ port = {}
    /\ observed = [t \in Threads |-> NoObserved]
    /\ call \in {extract_call(a, <<>>) : a \in Texts(ExtractAlphabet, MaxLen)}
                \cup {extract_call(ph.text, <<ph>>) : ph \in Phrases}
    /\ efficiency = NoEfficiency
    /\ statistics = NoStatistics

\* line 118
ExtractStrip ==
    /\ call.fn = "extract_answer_simple" /\ call.pc = "strip"
    /\ call' = [call EXCEPT !.answer = strip(call.arg), !.pc = "first_line"]
    /\ UNCHANGED <<run_vars, efficiency, statistics>>

\* lines 120-121
ExtractFirstLine ==
    /\ call.fn = "extract_answer_simple" /\ call.pc = "first_line"
    /\ call' = [call EXCEPT !.answer = first_line(call.answer), !.pc = "pattern"]
    /\ UNCHANGED <<run_vars, efficiency, statistics>>

\* lines 123-127
ExtractPattern ==
    /\ call.fn = "extract_answer_simple" /\ call.pc = "pattern"
    /\ call' = [call EXCEPT !.answer = remove_pattern(call.answer),
                            !.matched = answer_pattern_end(call.answer) # 0,
                            !.pc = "prefix"]
    /\ UNCHANGED <<run_vars, efficiency, statistics>>

\* lines 130-132: one iteration of the loop over prefixes_to_remove
ExtractPrefix ==
    /\ call.fn = "extract_answer_simple" /\ call.pc = "prefix"
    /\ call' = [call EXCEPT
                  !.answer = remove_prefix(call.answer, call.k),
                  !.removed = IF startswith(lower(call.answer), prefixes_to_remove[call.k])
                              THEN @ + 1 ELSE @,
                  !.k = @ + 1,
                  !.pc = IF call.k = Len(prefixes_to_remove) THEN "rstrip" ELSE "prefix"]
    /\ UNCHANGED <<run_vars, efficiency, statistics>>

\* lines 134-136
ExtractReturn ==
    /\ call.fn = "extract_answer_simple" /\ call.pc = "rstrip"
    /\ call' = [call EXCEPT !.answer = rstrip_dots(call.answer),
                            !.result = <<rstrip_dots(call.answer)>>,
                            !.pc = "done"]
    /\ UNCHANGED <<run_vars, efficiency, statistics>>

ExtractNext ==
    \/ ExtractStrip
    \/ ExtractFirstLine
    \/ ExtractPattern
    \/ ExtractPrefix
    \/ ExtractReturn

ExtractSpec == ExtractInit /\ [][ExtractNext]_vars

(***************************************************************************)
(* parse_response called directly, statement by statement.                 *)
(***************************************************************************)
\* No run() is in progress and no executor exists.
NoRun ==
    /\ exec = [e \in Executors |-> NoExecutor]
    /\ pc = [t \in Threads |-> "idle"]
    /\ frame = [t \in Threads |-> NoFrame]
    /\ response = [t \in Threads |-> <<>>]
    /\ outcome = [t \in Threads |-> "none"]
    /\ heap = [i \in HeapCells |-> FreeCell]
    /\ calls = [t \in Threads |-> <<>>]
    /\ ghost = [t \in Threads |-> NoGhost]
    /\ port = {}
    /\ observed = [t \in Threads |-> NoObserved]

ParseAlphabet == {" ", "\n", "Final Answer", "FINAL ANSWER", ":", "*", "15", "a"}

\* The responses of the two single-pass tests.
TestResponses ==
    { <<"Step 1", "\n", "Step 2", "\n", "Final Answer", ":", " ", "15">>,
      <<"Thinking", "\n", "100">> }

\* Responses of two non-blank lines with whitespace before, between and
\* after them.
LineResponses ==
    { lead \o <<"a">> \o mid \o <<"15">> \o trail :
        lead \in {<<>>, <<" ">>, <<"\n", " ">>},
        mid \in {<<"\n">>, <<"\n", "\n">>, <<" ", "\n", " ">>},
        trail \in {<<>>, <<" ", "\n">>} }

\* parse_response(response_text) is entered.
parse_call(response_text) ==
    [ fn |-> "parse_response", pc |-> "search", arg |-> response_text, match |-> <<>>,
      final_answer |-> <<>>, reasoning_trace |-> <<>>, result |-> <<>> ]

ParseInit ==
    /\ NoRun
    /\ call \in {parse_call(a) : a \in Texts(ParseAlphabet, MaxLen) \cup TestResponses
                                         \cup LineResponses}
    /\ efficiency = NoEfficiency
    /\ statistics = NoStatistics

\* lines 267-268 and the test of line 270
ParseSearch ==
    /\ call.fn = "parse_response" /\ call.pc = "search"
    /\ call' = [call EXCEPT !.match = final_answer_search(call.arg),
                            !.pc = IF final_answer_search(call.arg) # <<>>
                                   THEN "found" ELSE "fallback"]
    /\ UNCHANGED <<run_vars, efficiency, statistics>>

\* lines 271-272
ParseFound ==
    /\ call.fn = "parse_response" /\ call.pc = "found"
    /\ call' = [call EXCEPT !.final_answer = parse_match(call.arg, call.match)[1],
                            !.reasoning_trace = parse_match(call.arg, call.match)[2],
                            !.pc = "return"]
    /\ UNCHANGED <<run_vars, efficiency, statistics>>

\* lines 275-277
ParseFallback ==
    /\ call.fn = "parse_response" /\ call.pc = "fallback"
    /\ call' = [call EXCEPT !.final_answer = parse_match(call.arg, <<>>)[1],
                            !.reasoning_trace = parse_match(call.arg, <<>>)[2],
                            !.pc = "return"]
    /\ UNCHANGED <<run_vars, efficiency, statistics>>

\* line 279
ParseReturn ==
    /\ call.fn = "parse_response" /\ call.pc = "return"
    /\ call' = [call EXCEPT !.result = <<call.final_answer, call.reasoning_trace>>,
                            !.pc = "done"]
    /\ UNCHANGED <<run_vars, efficiency, statistics>>

ParseNext ==
    \/ ParseSearch
    \/ ParseFound
    \/ ParseFallback
    \/ ParseReturn

ParseSpec == ParseInit /\ [][ParseNext]_vars

(***************************************************************************)
(* utils/metrics.py: the Efficiency aggregator.                            *)
(***************************************************************************)
\* A float is a number or NaN.  The numbers of the model are whole.
Float(n) == [ kind |-> "float", v |-> n ]
NaN == [ kind |-> "nan", v |-> 0 ]
Floats == {Float(-1), Float(0), Float(1), NaN}

\* int(num_tasks) of an argument given in halves (h stands for h / 2):
\* truncation toward zero.
int(h) == IF h >= 0 THEN h \div 2 ELSE -((-h) \div 2)

\* The arguments -0.5, 0, 0.5, ..., 2.5: an object has 0, 1 or 2 tasks.
NumTasksArgs == (-1)..5

\* The lengths of the lists record_sample is given: up to one more than the
\* largest number of tasks.
Lengths == 0..3

\* A task_times argument: a list of floats, or (nested) a list that holds one
\* list of at most one float.
TaskTimes ==
    { [ nested |-> FALSE, items |-> r ] : r \in UNION {[1..k -> Floats] : k \in Lengths} }
        \cup { [ nested |-> TRUE, items |-> r ] : r \in UNION {[1..k -> Floats] : k \in 0..1} }

\* arr.ndim and arr.shape[0] of arr = np.asarray(task_times, dtype=float)
ndim(task_times) == IF task_times.nested THEN 2 ELSE 1
shape0(task_times) == IF task_times.nested THEN 1 ELSE Len(task_times.items)

\* x < 0 for one float: false for NaN
lt0(x) == x.kind = "float" /\ x.v < 0

\* np.any(arr < 0)
any_lt0(arr) == \E j \in 1..Len(arr) : lt0(arr[j])

\* The exception record_sample raises for task_times, "none" if it stores it.
record_sample_raises(num_tasks, task_times) ==
    IF ndim(task_times) # 1 \/ shape0(task_times) # num_tasks THEN "ValueError"
    ELSE IF any_lt0(task_times.items) THEN "ValueError"
    ELSE "none"

\* A variant of record_sample that stores the row before it validates it.
record_sample_stores_first(samples, num_tasks, task_times) ==
    Append(samples, task_times.items)

\* Efficiency.record_sample: self.samples after the call
record_sample(samples, num_tasks, task_times) ==
    IF record_sample_raises(num_tasks, task_times) = "none"
    THEN Append(samples, task_times.items)
    ELSE samples

\* x + y on floats: NaN if either is NaN
add(x, y) == IF x.kind = "nan" \/ y.kind = "nan" THEN NaN ELSE Float(x.v + y.v)

RECURSIVE sum_row(_)
sum_row(row) == IF row = <<>> THEN Float(0) ELSE add(row[1], sum_row(Tail(row)))

\* np.sum(self.samples)
RECURSIVE np_sum(_)
np_sum(samples) ==
    IF samples = <<>> THEN Float(0) ELSE add(sum_row(samples[1]), np_sum(Tail(samples)))

\* The value a method returns or the exception it raises.  A float result is
\* the exact quotient num / den, or NaN.
Value(kind, num, den) == [ raised |-> "none", kind |-> kind, num |-> num, den |-> den ]
Raised(exception) == [ raised |-> exception, kind |-> "none", num |-> 0, den |-> 1 ]
NoValue == Value("none", 0, 1)

\* total_time / self.num_tasks
divide(total_time, n) ==
    IF n = 0 THEN Raised("ZeroDivisionError")
    ELSE IF total_time.kind = "nan" THEN Value("nan", 0, 1)
    ELSE Value("float", total_time.v, n)

\* A variant of get_T that averages over every cell, dividing by M * N.
get_T_per_cell(samples, num_tasks) == divide(np_sum(samples), Len(samples) * num_tasks)

\* Efficiency.get_T
get_T(samples, num_tasks) == divide(np_sum(samples), num_tasks)

\* Efficiency.get_M
get_M(samples) == Value("int", Len(samples), 1)

\* What a call of record_sample was given: whether the list was nested, its
\* length, and whether it held a negative number.
given(task_times) ==
    [ nested |-> task_times.nested,
      length |-> Len(task_times.items),
      negative |-> \E j \in 1..Len(task_times.items) :
                      task_times.items[j].kind = "float" /\ task_times.items[j].v < 0 ]

NoTaskTimes == [ nested |-> FALSE, items |-> <<>> ]

\* The last call made on the object: its name, what it was given, its outcome
\* and self.samples as they were when it was entered.
last_call(op, task_times, value, before) ==
    [ op |-> op, arg |-> given(task_times), value |-> value, before |-> before ]

EffInit ==
    /\ NoRun
    /\ call = NoCall
    /\ efficiency = NoEfficiency
    /\ statistics = NoStatistics

\* Efficiency.__init__.  `recorded` counts the calls of record_sample that
\* returned since the object was constructed or last reset.
EffConstruct ==
    /\ ~efficiency.constructed
    /\ \E h \in NumTasksArgs :
          efficiency' = [ constructed |-> TRUE, num_tasks |-> int(h), samples |-> <<>>,
                          recorded |-> 0,
                          last |-> <<last_call("__init__", NoTaskTimes, NoValue, <<>>)>> ]
    /\ UNCHANGED <<run_vars, call, statistics>>

\* Efficiency.record_sample
EffRecordSample ==
    /\ efficiency.constructed
    /\ \E task_times \in TaskTimes :
          /\ \/ Len(efficiency.samples) < MaxSamples
             \/ record_sample_raises(efficiency.num_tasks, task_times) # "none"
          /\ efficiency' =
               [efficiency EXCEPT
                  !.samples = record_sample(efficiency.samples, efficiency.num_tasks, task_times),
                  !.recorded = IF record_sample_raises(efficiency.num_tasks, task_times) = "none"
                               THEN @ + 1 ELSE @,
                  !.last = <<last_call("record_sample", task_times,
                                       IF record_sample_raises(efficiency.num_tasks, task_times) = "none"
                                       THEN NoValue
                                       ELSE Raised(record_sample_raises(efficiency.num_tasks, task_times)),
                                       efficiency.samples)>>]
    /\ UNCHANGED <<run_vars, call, statistics>>

\* Efficiency.get_T
EffGetT ==
    /\ efficiency.constructed
    /\ efficiency' =
         [efficiency EXCEPT
            !.last = <<last_call("get_T", NoTaskTimes,
                                 get_T(efficiency.samples, efficiency.num_tasks),
                                 efficiency.samples)>>]
    /\ UNCHANGED <<run_vars, call, statistics>>

\* Efficiency.get_M
EffGetM ==
    /\ efficiency.constructed
    /\ efficiency' =
         [efficiency EXCEPT
            !.last = <<last_call("get_M", NoTaskTimes, get_M(efficiency.samples),
                                 efficiency.samples)>>]
    /\ UNCHANGED <<run_vars, call, statistics>>

\* A variant of reset that keeps the recorded samples.
EffReset_keeps_samples ==
    /\ efficiency.constructed
    /\ efficiency' =
         [efficiency EXCEPT
            !.recorded = 0,
            !.last = <<last_call("reset", NoTaskTimes, NoValue, efficiency.samples)>>]
    /\ UNCHANGED <<run_vars, call, statistics>>

\* Efficiency.reset
EffReset ==
    /\ efficiency.constructed
    /\ efficiency' =
         [efficiency EXCEPT
            !.samples = <<>>,
            !.recorded = 0,
            !.last = <<last_call("reset", NoTaskTimes, NoValue, efficiency.samples)>>]
    /\ UNCHANGED <<run_vars, call, statistics>>

EffNext ==
    \/ EffConstruct
    \/ EffRecordSample
    \/ EffGetT
    \/ EffGetM
    \/ EffReset

EfficiencySpec == EffInit /\ [][EffNext]_vars

(***************************************************************************)
(* utils/get_mean_std.py: the AccuracyStatistics aggregator.               *)
(***************************************************************************)
Accuracies == 0..MaxAccuracy

\* sum(xs) and sum(x * x for x in xs) over a list of numbers
RECURSIVE total(_)
total(xs) == IF xs = <<>> THEN 0 ELSE xs[1] + total(Tail(xs))

\* sum((n * x - t) ** 2 for x in xs)
RECURSIVE squared_deviations(_, _, _)
squared_deviations(xs, n, t) ==
    IF xs = <<>> THEN 0
    ELSE (n * xs[1] - t) * (n * xs[1] - t) + squared_deviations(Tail(xs), n, t)

\* np.mean(xs): the exact quotient sum / count, NaN for an empty list
np_mean(xs) == IF xs = <<>> THEN Value("nan", 0, 1) ELSE Value("float", total(xs), Len(xs))

\* The square root of num / den: 0.0 when num is 0, NaN when the quotient is
\* not a number or negative, and else kept as the root of the exact quotient.
sqrt(num, den) ==
    IF den <= 0 THEN Value("nan", 0, 1)
    ELSE IF num = 0 THEN Value("float", 0, 1)
    ELSE Value("sqrt", num, den)

\* np.std(xs, ddof): the root of the mean squared deviation from the mean,
\* with divisor len(xs) - ddof.  With n = len(xs) and t = sum(xs) the
\* deviation of x is (n * x - t) / n.
np_std(xs, ddof) ==
    sqrt(squared_deviations(xs, Len(xs), total(xs)), Len(xs) * Len(xs) * (Len(xs) - ddof))

\* A variant of get_mean without the test for an empty list.
get_mean_unguarded(accuracy_list) == np_mean(accuracy_list)

\* AccuracyStatistics.get_mean
get_mean(accuracy_list) ==
    IF accuracy_list = <<>> THEN Value("float", 0, 1) ELSE np_mean(accuracy_list)

\* A variant of get_std that computes the population deviation (ddof = 0).
get_std_population(accuracy_list) ==
    IF Len(accuracy_list) < 2 THEN Value("float", 0, 1) ELSE np_std(accuracy_list, 0)

\* AccuracyStatistics.get_std
get_std(accuracy_list) ==
    IF Len(accuracy_list) < 2 THEN Value("float", 0, 1) ELSE np_std(accuracy_list, 1)

\* AccuracyStatistics.get_num_runs
get_num_runs(accuracy_list) == Value("int", Len(accuracy_list), 1)

\* The last call made on the object and what it returned: the mean, the
\* deviation and the number of runs (summary returns all three).
stat_call(op, mean, std, num_runs) ==
    [ op |-> op, mean |-> mean, std |-> std, num_runs |-> num_runs ]

StatInit ==
    /\ NoRun
    /\ call = NoCall
    /\ efficiency = NoEfficiency
    /\ statistics = NoStatistics

\* AccuracyStatistics.__init__.  `added` keeps the values passed to
\* add_result since the object was constructed or last reset.
StatConstruct ==
    /\ ~statistics.constructed
    /\ statistics' = [ constructed |-> TRUE, accuracy_list |-> <<>>, added |-> <<>>,
                       last |-> <<stat_call("__init__", NoValue, NoValue, NoValue)>> ]
    /\ UNCHANGED <<run_vars, call, efficiency>>

\* AccuracyStatistics.add_result
StatAddResult ==
    /\ statistics.constructed
    /\ Len(statistics.accuracy_list) < MaxRuns
    /\ \E accuracy_value \in Accuracies :
          statistics' = [statistics EXCEPT
                           !.accuracy_list = Append(@, accuracy_value),
                           !.added = Append(@, accuracy_value),
                           !.last = <<stat_call("add_result", NoValue, NoValue, NoValue)>>]
    /\ UNCHANGED <<run_vars, call, efficiency>>

\* AccuracyStatistics.get_mean
StatGetMean ==
    /\ statistics.constructed
    /\ statistics' = [statistics EXCEPT
                        !.last = <<stat_call("get_mean", get_mean(statistics.accuracy_list),
                                             NoValue, NoValue)>>]
    /\ UNCHANGED <<run_vars, call, efficiency>>

\* AccuracyStatistics.get_std
StatGetStd ==
    /\ statistics.constructed
    /\ statistics' = [statistics EXCEPT
                        !.last = <<stat_call("get_std", NoValue,
                                             get_std(statistics.accuracy_list), NoValue)>>]
    /\ UNCHANGED <<run_vars, call, efficiency>>

\* AccuracyStatistics.get_num_runs
StatGetNumRuns ==
    /\ statistics.constructed
    /\ statistics' = [statistics EXCEPT
                        !.last = <<stat_call("get_num_runs", NoValue, NoValue,
                                             get_num_runs(statistics.accuracy_list))>>]
    /\ UNCHANGED <<run_vars, call, efficiency>>

\* AccuracyStatistics.reset
StatReset ==
    /\ statistics.constructed
    /\ statistics' = [statistics EXCEPT
                        !.accuracy_list = <<>>,
                        !.added = <<>>,
                        !.last = <<stat_call("reset", NoValue, NoValue, NoValue)>>]
    /\ UNCHANGED <<run_vars, call, efficiency>>

\* AccuracyStatistics.summary
StatSummary ==
    /\ statistics.constructed
    /\ statistics' = [statistics EXCEPT
                        !.last = <<stat_call("summary", get_mean(statistics.accuracy_list),
                                             get_std(statistics.accuracy_list),
                                             get_num_runs(statistics.accuracy_list))>>]
    /\ UNCHANGED <<run_vars, call, efficiency>>

StatNext ==
    \/ StatConstruct
    \/ StatAddResult
    \/ StatGetMean
    \/ StatGetStd
    \/ StatGetNumRuns
    \/ StatReset
    \/ StatSummary

StatisticsSpec == StatInit /\ [][StatNext]_vars

(***************************************************************************)
(* Input.build_prompt called directly, statement by statement.             *)
(***************************************************************************)
BuildAlphabet == {"Q", " ", "\n"}

\* An optional section: None, the empty text, one line, or two paragraphs.
OptionalSections(name) ==
    {None, Some(<<>>), Some(<<name>>), Some(<<name, "\n", "\n", "more">>)}

\* A variant of the optional append that appends an absent section as an
\* empty one.
append_section_always(parts, section) == Append(parts, or_default(section, <<>>))

\* if section: parts.append(section)
append_section(parts, section) ==
    IF truthy(section) THEN Append(parts, the(section)) ELSE parts

\* build_prompt(question, system_prompt, instruction) is entered; line 57
build_call(question, system_prompt, instruction) ==
    [ fn |-> "build_prompt", pc |-> "system_prompt", question |-> question,
      system_prompt |-> system_prompt, instruction |-> instruction,
      parts |-> <<>>, result |-> <<>> ]

BuildInit ==
    /\ NoRun
    /\ call \in {build_call(q, sp, ins) : q \in Texts(BuildAlphabet, MaxLen),
                                          sp \in OptionalSections("SYS"),
                                          ins \in OptionalSections("INS")}
    /\ efficiency = NoEfficiency
    /\ statistics = NoStatistics

\* lines 59-60
BuildSystemPrompt ==
    /\ call.fn = "build_prompt" /\ call.pc = "system_prompt"
    /\ call' = [call EXCEPT !.parts = append_section(call.parts, call.system_prompt),
                            !.pc = "instruction"]
    /\ UNCHANGED <<run_vars, efficiency, statistics>>

\* lines 62-63
BuildInstruction ==
    /\ call.fn = "build_prompt" /\ call.pc = "instruction"
    /\ call' = [call EXCEPT !.parts = append_section(call.parts, call.instruction),
                            !.pc = "question"]
    /\ UNCHANGED <<run_vars, efficiency, statistics>>

\* line 65
BuildQuestion ==
    /\ call.fn = "build_prompt" /\ call.pc = "question"
    /\ call' = [call EXCEPT !.parts = Append(call.parts, <<"Question:", " ">> \o call.question),
                            !.pc = "answer"]
    /\ UNCHANGED <<run_vars, efficiency, statistics>>

\* line 66
BuildAnswer ==
    /\ call.fn = "build_prompt" /\ call.pc = "answer"
    /\ call' = [call EXCEPT !.parts = Append(call.parts, <<"Answer:">>), !.pc = "join"]
    /\ UNCHANGED <<run_vars, efficiency, statistics>>

\* line 68
BuildJoin ==
    /\ call.fn = "build_prompt" /\ call.pc = "join"
    /\ call' = [call EXCEPT !.result = <<join_blank(call.parts)>>, !.pc = "done"]
    /\ UNCHANGED <<run_vars, efficiency, statistics>>

BuildNext ==
    \/ BuildSystemPrompt
    \/ BuildInstruction
    \/ BuildQuestion
    \/ BuildAnswer
    \/ BuildJoin

BuildSpec == BuildInit /\ [][BuildNext]_vars

(***************************************************************************)
(* The two aggregators: a program constructs one of them and uses it.      *)
(* They share no state, so that using both side by side adds nothing.      *)
(***************************************************************************)
AggInit ==
    /\ NoRun
    /\ call = NoCall
    /\ efficiency = NoEfficiency
    /\ statistics = NoStatistics

AggNext ==
    \/ ~statistics.constructed /\ EffNext
    \/ ~efficiency.constructed /\ StatNext

AggSpec == AggInit /\ [][AggNext]_vars

(***************************************************************************)
(* Properties                                                              *)
(***************************************************************************)

\* The sum of field f over the Port calls of log cs that returned.
RECURSIVE port_tokens(_, _)
port_tokens(cs, f) ==
    IF cs = <<>> THEN 0
    ELSE (IF Head(cs).status = "returned" THEN Head(cs).returned[1][f] ELSE 0)
         + port_tokens(Tail(cs), f)

\* Positions i..j of s are what is left of s without its leading and trailing
\* whitespace (i = j + 1 when nothing is left), said without strip.
TrimBounds(s, i, j) ==
    /\ i <= j + 1
    /\ i <= j => (s[i] \notin Whitespace /\ s[j] \notin Whitespace)
    /\ \A k \in 1..(i - 1) : s[k] \in Whitespace
    /\ \A k \in (j + 1)..Len(s) : s[k] \in Whitespace

IsTrimOf(x, s) ==
    \E i \in 1..(Len(s) + 1), j \in 0..Len(s) :
        TrimBounds(s, i, j) /\ x = SubSeq(s, i, j)

EndsWith(s, suffix) ==
    /\ Len(suffix) <= Len(s)
    /\ SubSeq(s, Len(s) - Len(suffix) + 1, Len(s)) = suffix

\* The record the last run() of thread t returned.
record(t) == response[t][1]

\* The record's counters are exactly the sums over the Port calls of the run
\* of thread t that produced it.
CountsOwnCalls(t) ==
    /\ record(t).total_input_tokens = port_tokens(calls[t], "input_tokens")
    /\ record(t).total_output_tokens = port_tokens(calls[t], "output_tokens")
    /\ record(t).num_llm_calls = Len(calls[t])

Returned(t) == outcome[t] = "returned" /\ pc[t] = "idle"

\* C1: the record a run() returns carries total_input_tokens,
\* total_output_tokens and num_llm_calls equal to the sums over exactly the
\* Port calls of that run; nothing of an earlier run on the same executor,
\* completed or aborted, is included.
C1_RecordCountsOnlyItsRun ==
    \A t \in Threads : Returned(t) => CountsOwnCalls(t)

\* A run returned its record on an executor whose counters an aborted earlier
\* run had left non-zero.
C1_Witness ==
    \E t \in Threads :
        /\ Returned(t)
        /\ ghost[t].dirty
        /\ record(t).num_llm_calls > 0
        /\ record(t).total_input_tokens > 0

\* C2: when call_llm returns, generate has been invoked exactly once for it
\* and has returned, the executor's token totals have grown by that response's
\* token counts, num_llm_calls has grown by one, and the value handed back is
\* the Port's response itself.
C2_CallLlmCountsOnce ==
    \A t \in Threads :
        pc[t] = "return_llm" =>
            LET c == calls[t][Len(calls[t])]
                e == exec[self(t)]
            IN  /\ c.status = "returned"
                /\ Len(calls[t]) = c.before.num_llm_calls + 1
                /\ e.num_llm_calls = c.before.num_llm_calls + 1
                /\ e.total_input_tokens =
                       c.before.total_input_tokens + c.returned[1].input_tokens
                /\ e.total_output_tokens =
                       c.before.total_output_tokens + c.returned[1].output_tokens
                /\ call_llm_result(t) = c.returned[1]

\* The second call_llm of a run returns a response with different, non-zero
\* token counts on top of counters that are already non-zero.
C2_Witness ==
    \E t \in Threads :
        /\ pc[t] = "return_llm"
        /\ Len(calls[t]) = 2
        /\ calls[t][2].before.total_input_tokens > 0
        /\ calls[t][2].returned[1].input_tokens > 0
        /\ calls[t][2].returned[1].output_tokens = 0

\* C3: for every record, in every state it passes through and whatever its
\* token fields have been reassigned to, total_tokens is total_input_tokens
\* plus total_output_tokens, and the total_tokens entry of to_dict() is the sum
\* of its total_input_tokens and total_output_tokens entries.
C3_TotalTokensIsSum ==
    \A t \in Threads :
        /\ response[t] # <<>> =>
              /\ total_tokens(record(t)) =
                     record(t).total_input_tokens + record(t).total_output_tokens
              /\ LET d == to_dict(record(t), heap)
                 IN  /\ d.total_tokens = d.total_input_tokens + d.total_output_tokens
                     /\ d.total_input_tokens = record(t).total_input_tokens
                     /\ d.total_output_tokens = record(t).total_output_tokens
        /\ observed[t].total_tokens # <<>> =>
              LET o == observed[t].total_tokens[1]
              IN  o.value = o.total_input_tokens + o.total_output_tokens
        /\ observed[t].dict # <<>> =>
              LET d == observed[t].dict[1]
              IN  d.total_tokens = d.total_input_tokens + d.total_output_tokens

\* A record whose token fields were reassigned after a first to_dict(): the
\* dictionary taken then differs from the fields now, and the property read now
\* has a non-zero output part.
C3_Witness ==
    \E t \in Threads :
        /\ response[t] # <<>>
        /\ observed[t].dict # <<>>
        /\ observed[t].dict[1].total_output_tokens # record(t).total_output_tokens
        /\ observed[t].total_tokens # <<>>
        /\ observed[t].total_tokens[1].total_output_tokens > 0
        /\ observed[t].total_tokens[1].total_input_tokens > 0

\* The class of the executor the current or last run of thread t is on, and
\* the arguments of that run.
run_class(t) == exec[ghost[t].self].cls
run_args(t) == ghost[t].args
Started(t) == outcome[t] # "none"

\* The extraction prompt p ends with the trigger, one space, the trimmed text
\* of content, a blank line and the extraction cue of executor e.
EmbedsTrimmed(p, content, e) ==
    \E i \in 1..(Len(content) + 1), j \in 0..Len(content) :
        /\ TrimBounds(content, i, j)
        /\ EndsWith(p, exec[e].cot_trigger \o <<" ">> \o SubSeq(content, i, j)
                           \o <<"\n", "\n">> \o exec[e].extraction_prompt)

\* C4: a ZeroShotCoT run with extract_answer true makes exactly two Port
\* calls: the Extraction call is issued only after the Reasoning call has
\* returned, its prompt embeds the trimmed Reasoning output, and the record
\* has num_llm_calls = 2 with token totals summed over both calls.
C4_TwoStageOrder ==
    \A t \in Threads :
        (Started(t) /\ run_class(t) = "ZeroShotCoT" /\ run_args(t).extract_answer) =>
            /\ Len(calls[t]) <= 2
            /\ Len(calls[t]) = 2 =>
                  /\ calls[t][1].status = "returned"
                  /\ EmbedsTrimmed(calls[t][2].prompt,
                                   calls[t][1].returned[1].content, ghost[t].self)
            /\ Returned(t) =>
                  /\ Len(calls[t]) = 2
                  /\ calls[t][2].status = "returned"
                  /\ record(t).num_llm_calls = 2
                  /\ record(t).total_input_tokens =
                         calls[t][1].returned[1].input_tokens
                         + calls[t][2].returned[1].input_tokens
                  /\ record(t).total_output_tokens =
                         calls[t][1].returned[1].output_tokens
                         + calls[t][2].returned[1].output_tokens

\* A two-stage run returned whose Reasoning output had whitespace to trim and
\* whose two calls both used tokens.
C4_Witness ==
    \E t \in Threads :
        /\ Returned(t)
        /\ run_class(t) = "ZeroShotCoT"
        /\ run_args(t).extract_answer
        /\ ~IsTrimOf(calls[t][1].returned[1].content, calls[t][1].returned[1].content)
        /\ calls[t][1].returned[1].input_tokens > 0
        /\ calls[t][2].returned[1].input_tokens > 0
        /\ record(t).total_input_tokens = 2

\* C5: in a ZeroShotCoT run the Reasoning call is made at the temperature the
\* caller supplied and the Extraction call at temperature 0, whatever the
\* caller supplied.
C5_ExtractionTemperatureZero ==
    \A t \in Threads :
        (Started(t) /\ run_class(t) = "ZeroShotCoT") =>
            /\ Len(calls[t]) >= 1 => calls[t][1].temperature = run_args(t).temperature
            /\ Len(calls[t]) >= 2 => calls[t][2].temperature = 0

\* An Extraction call has been issued in a run whose caller asked for a
\* non-zero temperature.
C5_Witness ==
    \E t \in Threads :
        /\ run_class(t) = "ZeroShotCoT"
        /\ Len(calls[t]) = 2
        /\ run_args(t).temperature # 0
        /\ calls[t][1].temperature # 0

\* C6: a ZeroShotCoT run with extract_answer false makes no second Port call,
\* so its record has num_llm_calls = 1, and the final answer is the reasoning
\* trace itself: the trimmed Reasoning output, which is also what the
\* record's reasoning_trace carries after the trigger.
C6_NoExtractionCall ==
    \A t \in Threads :
        (Started(t) /\ run_class(t) = "ZeroShotCoT" /\ ~run_args(t).extract_answer) =>
            /\ Len(calls[t]) <= 1
            /\ Returned(t) =>
                  /\ Len(calls[t]) = 1
                  /\ record(t).num_llm_calls = 1
                  /\ IsTrimOf(record(t).final_answer, calls[t][1].returned[1].content)
                  /\ record(t).reasoning_trace =
                         exec[ghost[t].self].cot_trigger \o <<" ">> \o record(t).final_answer

\* A run without extraction returned a trace that answer extraction would have
\* changed.
C6_Witness ==
    \E t \in Threads :
        /\ Returned(t)
        /\ run_class(t) = "ZeroShotCoT"
        /\ ~run_args(t).extract_answer
        /\ extract_answer_simple(record(t).final_answer) # record(t).final_answer

\* C7: when a Port call raises during run(), the failure reaches the caller
\* of run(): the run is over, the raising call is the last Port call the run
\* makes, and the run produces no record.
C7_PortFailurePropagates ==
    \A t \in Threads :
        /\ \A i \in 1..Len(calls[t]) :
              calls[t][i].status = "raised" =>
                  /\ i = Len(calls[t])
                  /\ outcome[t] = "raised"
        /\ outcome[t] = "raised" =>
              /\ pc[t] = "idle"
              /\ calls[t] # <<>>
              /\ calls[t][Len(calls[t])].status = "raised"
              /\ ghost[t].made = 0

\* The Extraction call of a run raised after its Reasoning call had returned.
C7_Witness ==
    \E t \in Threads :
        /\ outcome[t] = "raised"
        /\ Len(calls[t]) = 2
        /\ calls[t][1].status = "returned"

\* C8: when every concurrent run has an executor instance of its own, every
\* interleaving gives each returned record counters equal to the sums over
\* that run's own Port calls; only a run that shared its executor with an
\* overlapping run can return other counters.
C8_OwnExecutorCountsExactly ==
    \A t \in Threads :
        (Returned(t) /\ ~ghost[t].overlap) => CountsOwnCalls(t)

\* Two runs were interleaved on one executor and one of them returned a record
\* whose counters are not those of its own Port calls.
C8_Witness ==
    \E t \in Threads :
        /\ Returned(t)
        /\ ghost[t].overlap
        /\ ~CountsOwnCalls(t)

\* A run on an executor of its own returned while another run was in progress
\* on the other executor.
C8_WitnessOwnExecutor ==
    \E t \in Threads, u \in Threads :
        /\ Returned(t)
        /\ ~ghost[t].overlap
        /\ record(t).num_llm_calls > 0
        /\ pc[u] \notin {"idle", "reset_in", "reset_out", "reset_calls"}
        /\ self(u) # ghost[t].self

\* Thread t takes the step in which its run() returns a record.
ReturnsRecord(t) == pc[t] = "snap_calls" /\ pc'[t] = "idle"

\* C9: once run() has returned a record, no later step of the executor that
\* produced it (reset_counters, call_llm, create_response, a further run() up
\* to its own return or failure) changes any field of that record, the
\* contents of its intermediate_steps list included.
C9_ReturnedRecordUnchanged ==
    [][\A t \in Threads :
          (response[t] # <<>> /\ ~ReturnsRecord(t)) =>
              /\ response'[t] # <<>>
              /\ response'[t][1] = response[t][1]
              /\ to_dict(response'[t][1], heap') = to_dict(response[t][1], heap)]_vars

\* A record is held by the caller while a later run on the same executor has
\* made its calls, so that the executor's counters and the steps of the run in
\* progress differ from what the record carries.
C9_Witness ==
    \E t \in Threads :
        /\ response[t] # <<>>
        /\ pc[t] = "snap_calls"
        /\ self(t) = "e1"
        /\ exec[self(t)].total_input_tokens # record(t).total_input_tokens
        /\ heap[frame[t].steps].items # heap[record(t).intermediate_steps].items
        /\ heap[record(t).intermediate_steps].items # <<>>

\* C10: a Zero-Shot run() makes exactly one Port call, and the record it
\* returns has the Port's output with leading and trailing whitespace removed
\* and nothing else changed as final_answer, an empty reasoning_trace, and
\* num_llm_calls = 1.
C10_ZeroShotReturnsTrimmedOutput ==
    \A t \in Threads :
        (Started(t) /\ run_class(t) = "Input") =>
            /\ Len(calls[t]) <= 1
            /\ Returned(t) =>
                  /\ Len(calls[t]) = 1
                  /\ calls[t][1].status = "returned"
                  /\ IsTrimOf(record(t).final_answer, calls[t][1].returned[1].content)
                  /\ record(t).reasoning_trace = <<>>
                  /\ record(t).num_llm_calls = 1

\* A Zero-Shot run returned an answer that had whitespace trimmed and that
\* answer extraction would have changed further.
C10_Witness ==
    \E t \in Threads :
        /\ Returned(t)
        /\ run_class(t) = "Input"
        /\ record(t).final_answer # calls[t][1].returned[1].content
        /\ extract_answer_simple(calls[t][1].returned[1].content) # record(t).final_answer

\* The direct call of extract_answer_simple has returned.
Extracted == call.fn = "extract_answer_simple" /\ call.pc = "done"

\* C11: extract_answer_simple removes at most one of the residual prefixes
\* ":", "is", "is:", "=" from the front of the text, for every input.
C11_AtMostOnePrefix ==
    call.fn = "extract_answer_simple" => call.removed <= 1

\* The text s without its leading and trailing whitespace, its first line, and
\* x without its trailing periods, each said without the code's operators.
TrimOf(s) ==
    CHOOSE x \in {SubSeq(s, i, j) : i \in 1..(Len(s) + 1), j \in 0..Len(s)} : IsTrimOf(x, s)

IsFirstLineOf(x, s) ==
    /\ \A i \in 1..Len(x) : x[i] # "\n"
    /\ \/ x = s
       \/ /\ Len(x) < Len(s)
          /\ SubSeq(s, 1, Len(x)) = x
          /\ s[Len(x) + 1] = "\n"

FirstLineOf(s) == CHOOSE x \in {SubSeq(s, 1, j) : j \in 0..Len(s)} : IsFirstLineOf(x, s)

IsWithoutTrailingDots(r, x) ==
    /\ Len(r) <= Len(x)
    /\ SubSeq(x, 1, Len(r)) = r
    /\ \A i \in (Len(r) + 1)..Len(x) : x[i] = "."
    /\ r = <<>> \/ r[Len(r)] # "."

\* The call found no leading answer phrase and no residual prefix.
NoPattern == ~call.matched /\ call.removed = 0

\* C12 as stated: for every input with no leading answer phrase and no
\* residual prefix, extract_answer_simple returns the trimmed input unchanged.
C12_ReturnsTrimmedInput ==
    (Extracted /\ NoPattern) => IsTrimOf(call.result[1], call.arg)

\* C12, amended: every call of extract_answer_simple returns a text, and for
\* an input with no leading answer phrase and no residual prefix that text is
\* the first line of the trimmed input, trimmed, without its trailing periods.
C12_ReturnsFirstLineWithoutDots ==
    Extracted =>
        /\ call.result # <<>>
        /\ NoPattern =>
              IsWithoutTrailingDots(call.result[1], TrimOf(FirstLineOf(TrimOf(call.arg))))

\* A call without any pattern returned something else than the trimmed input:
\* the input had a second line and its first line ended with a period.
C12_Witness ==
    /\ Extracted
    /\ NoPattern
    /\ ~IsTrimOf(call.result[1], call.arg)
    /\ \E i \in 1..Len(call.arg) : call.arg[i] = "\n" /\ i > 1 /\ call.arg[i - 1] = "."
    /\ call.result[1] # <<>>

\* C13: for a text whose first line is an optional "Therefore,", an optional
\* "the", "answer", an optional "is", an optional ":" or "=", a value X and
\* trailing periods, whatever lines follow, extract_answer_simple returns X.
C13_ReturnsPhraseValue ==
    (Extracted /\ call.expect # <<>>) => call.result[1] = call.expect[1].value

\* parse_response has returned.
Parsed == call.fn = "parse_response" /\ call.pc = "done"

\* The call found the "Final Answer" pattern in its argument.
TagFound == call.fn = "parse_response" /\ call.match # <<>>

\* p is the position of the tag of the match: the first "Final Answer" at or
\* after the start of the match (only bold markers come before it).
IsTagOfMatch(s, p) ==
    /\ p \in call.match[1]..Len(s)
    /\ lower_sym(s[p]) = "final answer"
    /\ \A k \in call.match[1]..(p - 1) : lower_sym(s[k]) # "final answer"

\* e is the last position of the line of s that holds position p.
IsLineEnd(s, p, e) ==
    /\ e \in p..Len(s)
    /\ \A k \in (p + 1)..e : s[k] # "\n"
    /\ e = Len(s) \/ s[e + 1] = "\n"

\* x is the trimmed rest of the tag's line: what follows the tag (and, or
\* not, its colon and bold markers) on that line, trimmed.
IsRestOfTagLine(x, s) ==
    \E p \in 1..Len(s), e \in 1..Len(s) :
        /\ IsTagOfMatch(s, p)
        /\ IsLineEnd(s, p, e)
        /\ \E q \in (p + 1)..(e + 1) : IsTrimOf(x, SubSeq(s, q, e))

\* C14 as stated: when the "Final Answer" pattern occurs in the response
\* text, final_answer is the trimmed remainder of the line on which the tag
\* occurs and reasoning_trace is the text before the match, trimmed.
C14_TagLineRemainder ==
    (Parsed /\ TagFound) =>
        /\ IsRestOfTagLine(call.result[1], call.arg)
        /\ IsTrimOf(call.result[2], SubSeq(call.arg, 1, call.match[1] - 1))

\* What holds of C14: reasoning_trace is the trimmed text before the match,
\* and final_answer is the trimmed rest of the tag's line whenever that rest
\* holds more than whitespace after the tag, its colon and its bold markers.
TagLineHasValue(s) ==
    \E p \in 1..Len(s), e \in 1..Len(s) :
        /\ IsTagOfMatch(s, p)
        /\ IsLineEnd(s, p, e)
        /\ \E k \in (p + 1)..e : s[k] \notin Whitespace \cup {":", "*"}

TagLineRemainderWhenPresent ==
    (Parsed /\ TagFound) =>
        /\ TagLineHasValue(call.arg) => IsRestOfTagLine(call.result[1], call.arg)
        /\ IsTrimOf(call.result[2], SubSeq(call.arg, 1, call.match[1] - 1))

\* The call did not find the pattern and has returned.
FellBack == Parsed /\ ~TagFound

\* Positions a..b of s are its last line that holds more than whitespace.
IsLastNonBlankLine(s, a, b) ==
    /\ a <= b
    /\ a = 1 \/ s[a - 1] = "\n"
    /\ b = Len(s) \/ s[b + 1] = "\n"
    /\ \A k \in a..b : s[k] # "\n"
    /\ \E k \in a..b : s[k] \notin Whitespace
    /\ \A k \in (b + 1)..Len(s) : s[k] \in Whitespace

Blank(s) == \A k \in 1..Len(s) : s[k] \in Whitespace

\* The lines of s before the line that starts at a, joined by line breaks.
PrecedingLines(s, a) == SubSeq(s, 1, a - 2)

\* x is s without its leading whitespace.
IsLeftTrimOf(x, s) ==
    \E i \in 1..(Len(s) + 1) :
        /\ x = SubSeq(s, i, Len(s))
        /\ \A k \in 1..(i - 1) : s[k] \in Whitespace
        /\ i <= Len(s) => s[i] \notin Whitespace

\* C15 as stated: when the pattern does not occur, final_answer is the last
\* non-empty line trimmed and reasoning_trace is all preceding lines joined
\* (as they are, or trimmed), empty if there is only one line.
C15_PrecedingLinesJoined ==
    (FellBack /\ ~Blank(call.arg)) =>
        \E a \in 1..Len(call.arg), b \in 1..Len(call.arg) :
            /\ IsLastNonBlankLine(call.arg, a, b)
            /\ IsTrimOf(call.result[1], SubSeq(call.arg, a, b))
            /\ \/ call.result[2] = PrecedingLines(call.arg, a)
               \/ IsTrimOf(call.result[2], PrecedingLines(call.arg, a))

\* C15, amended: when the pattern does not occur the call returns a pair;
\* final_answer is the last non-blank line trimmed (empty for a blank text)
\* and reasoning_trace is the lines before that line joined by line breaks,
\* without the leading whitespace of the text but with the blank lines that
\* come directly before the last line; it is empty when no non-blank line
\* comes before.
C15_FallbackLastLine ==
    FellBack =>
        /\ Len(call.result) = 2
        /\ Blank(call.arg) => call.result = << <<>>, <<>> >>
        /\ ~Blank(call.arg) =>
              \E a \in 1..Len(call.arg), b \in 1..Len(call.arg) :
                  /\ IsLastNonBlankLine(call.arg, a, b)
                  /\ IsTrimOf(call.result[1], SubSeq(call.arg, a, b))
                  /\ IsLeftTrimOf(call.result[2], PrecedingLines(call.arg, a))

\* A fallback over a text that starts with whitespace and has a blank line
\* between its two non-blank lines.
C15_Witness ==
    /\ FellBack
    /\ Len(call.arg) >= 4
    /\ call.arg[1] \in Whitespace
    /\ call.result[1] # <<>>
    /\ call.result[2] # <<>>
    /\ call.result[2][Len(call.result[2])] = "\n"

\* The last call made on the Efficiency object was op.
EffLast(op) ==
    /\ efficiency.constructed
    /\ efficiency.last[1].op = op

\* The call was given a list whose length is not N or that holds a negative
\* number.
Malformed(arg, N) ==
    \/ ~arg.nested /\ arg.length # N
    \/ arg.negative

\* C16: record_sample with a sequence whose length is not N, or that holds a
\* negative value, raises the validation error and leaves the stored samples,
\* and so get_M and get_T, as they were before the call.
C16_RejectedLeavesSamples ==
    (EffLast("record_sample") /\ Malformed(efficiency.last[1].arg, efficiency.num_tasks)) =>
        /\ efficiency.last[1].value.raised = "ValueError"
        /\ efficiency.samples = efficiency.last[1].before
        /\ get_M(efficiency.samples) = get_M(efficiency.last[1].before)
        /\ get_T(efficiency.samples, efficiency.num_tasks)
             = get_T(efficiency.last[1].before, efficiency.num_tasks)

\* A row of the right length with a negative value was rejected while a row
\* was stored.
C16_Witness ==
    /\ EffLast("record_sample")
    /\ ~efficiency.last[1].arg.nested
    /\ efficiency.last[1].arg.length = efficiency.num_tasks
    /\ efficiency.num_tasks = 2
    /\ efficiency.last[1].arg.negative
    /\ efficiency.last[1].value.raised = "ValueError"
    /\ Len(efficiency.samples) = 1

\* x >= 0 for one float: false for NaN
ge0(x) == x.kind = "float" /\ x.v >= 0

\* C17 as stated: in every state reached through the constructor,
\* record_sample and reset, every stored row has exactly N elements and every
\* element is >= 0.
C17_RowsNonNegative ==
    efficiency.constructed =>
        \A i \in 1..Len(efficiency.samples) :
            /\ Len(efficiency.samples[i]) = efficiency.num_tasks
            /\ \A j \in 1..Len(efficiency.samples[i]) : ge0(efficiency.samples[i][j])

\* What holds of C17: every stored row has exactly N elements and none of
\* them is a negative number.
RowsHaveNoNegative ==
    efficiency.constructed =>
        \A i \in 1..Len(efficiency.samples) :
            /\ Len(efficiency.samples[i]) = efficiency.num_tasks
            /\ \A j \in 1..Len(efficiency.samples[i]) : ~lt0(efficiency.samples[i][j])

\* The cells of the stored matrix and the sum of the numbers in a set of them.
Cells(samples) == {c \in (1..Len(samples)) \X (Lengths \ {0}) : c[2] <= Len(samples[c[1]])}

RECURSIVE CellSum(_, _)
CellSum(samples, cells) ==
    IF cells = {} THEN 0
    ELSE CellSum(samples, cells \ {CHOOSE c \in cells : TRUE})
           + samples[(CHOOSE c \in cells : TRUE)[1]][(CHOOSE c \in cells : TRUE)[2]].v

HoldsNaN(samples) == \E c \in Cells(samples) : samples[c[1]][c[2]].kind = "nan"

\* C18: get_T is the grand total of the stored timings divided by N, not by
\* M * N: the value q = num / den it returns satisfies q * N = total, that
\* is num * N = total * den (N is not 0; the total of rows that hold NaN is
\* NaN, and so is get_T).
C18_GetTTimesNIsTotal ==
    (EffLast("get_T") /\ efficiency.num_tasks # 0) =>
        /\ efficiency.last[1].value.raised = "none"
        /\ HoldsNaN(efficiency.samples) => efficiency.last[1].value.kind = "nan"
        /\ ~HoldsNaN(efficiency.samples) =>
              /\ efficiency.last[1].value.kind = "float"
              /\ efficiency.last[1].value.num * efficiency.num_tasks
                   = CellSum(efficiency.samples, Cells(efficiency.samples))
                       * efficiency.last[1].value.den

\* get_T was called on two stored rows of two timings with a positive total.
C18_Witness ==
    /\ EffLast("get_T")
    /\ efficiency.num_tasks = 2
    /\ Len(efficiency.samples) = 2
    /\ ~HoldsNaN(efficiency.samples)
    /\ efficiency.last[1].value.num = 3
    /\ efficiency.last[1].value.den = 2

\* The last call on the AccuracyStatistics object returned a mean / a
\* deviation (get_mean, get_std or summary).
ReturnedMean == statistics.constructed /\ statistics.last[1].mean # NoValue
ReturnedStd == statistics.constructed /\ statistics.last[1].std # NoValue

\* The float 0.0
Zero == Value("float", 0, 1)

\* C19: get_mean returns 0.0 whenever no sample is held and get_std returns
\* 0.0 whenever fewer than two samples are held, in every state reached
\* through add_result and reset; neither raises.
C19_SentinelsWhenTooFewSamples ==
    /\ (ReturnedMean /\ Len(statistics.added) = 0) => statistics.last[1].mean = Zero
    /\ (ReturnedStd /\ Len(statistics.added) < 2) => statistics.last[1].std = Zero
    /\ ReturnedMean => statistics.last[1].mean.raised = "none"
    /\ ReturnedStd => statistics.last[1].std.raised = "none"

\* summary returned both sentinels on an object that holds no sample.
C19_Witness ==
    /\ ReturnedMean
    /\ ReturnedStd
    /\ statistics.last[1].op = "summary"
    /\ statistics.added = <<>>
    /\ statistics.last[1].mean = Zero
    /\ statistics.last[1].std = Zero
    /\ statistics.last[1].num_runs = Value("int", 0, 1)

\* get_std returned the sentinel on an object that holds one sample.
C19_WitnessOneSample ==
    /\ ReturnedStd
    /\ statistics.last[1].op = "get_std"
    /\ statistics.added = <<2>>
    /\ statistics.last[1].std = Zero

\* sum(x * x for x in xs)
RECURSIVE SumOfSquares(_)
SumOfSquares(xs) == IF xs = <<>> THEN 0 ELSE xs[1] * xs[1] + SumOfSquares(Tail(xs))

RECURSIVE SumOf(_)
SumOf(xs) == IF xs = <<>> THEN 0 ELSE SumOf(SubSeq(xs, 1, Len(xs) - 1)) + xs[Len(xs)]

\* n * (n - 1) times the sample variance of xs (divisor n - 1):
\* n * sum(x^2) - sum(x)^2
ScaledSampleVariance(xs) == Len(xs) * SumOfSquares(xs) - SumOf(xs) * SumOf(xs)

\* C20: with at least one sample get_mean is sum / count of the values added
\* since the last reset; with at least two, get_std is the sample standard
\* deviation, the root of the variance with divisor count - 1.  For the value
\* m = num / den: m * count = sum.  For the value s, root of num / den:
\* (num / den) * count * (count - 1) = count * sum(x^2) - sum(x)^2.
C20_MeanAndSampleStd ==
    /\ (ReturnedMean /\ Len(statistics.added) >= 1) =>
          /\ statistics.last[1].mean.kind = "float"
          /\ statistics.last[1].mean.num * Len(statistics.added)
               = SumOf(statistics.added) * statistics.last[1].mean.den
    /\ (ReturnedStd /\ Len(statistics.added) >= 2) =>
          /\ statistics.last[1].std.kind \in {"float", "sqrt"}
          /\ statistics.last[1].std.kind = "float" =>
                statistics.last[1].std.num = 0 /\ ScaledSampleVariance(statistics.added) = 0
          /\ statistics.last[1].std.kind = "sqrt" =>
                statistics.last[1].std.num * Len(statistics.added) * (Len(statistics.added) - 1)
                  = ScaledSampleVariance(statistics.added) * statistics.last[1].std.den

\* summary returned the mean 1 and a deviation that is not 0 for the samples
\* 0 and 2, added after a reset.
C20_Witness ==
    /\ ReturnedStd
    /\ statistics.last[1].op = "summary"
    /\ statistics.added = <<0, 2>>
    /\ statistics.last[1].mean = Value("float", 2, 2)
    /\ statistics.last[1].std.kind = "sqrt"

\* build_prompt has returned.
Built == call.fn = "build_prompt" /\ call.pc = "done"

\* An optional section is present when it is given and not empty.
Present(o) == o # None /\ o # Some(<<>>)

BlankLine == <<"\n", "\n">>

\* The text a present section contributes with the blank line after it.
Contribution(o) == IF Present(o) THEN the(o) \o BlankLine ELSE <<>>

\* C21: the Zero-Shot prompt is the present sections in the order system
\* prompt, instruction, "Question: {question}", "Answer:", adjacent sections
\* separated by one blank line; an absent section adds nothing, no separator
\* either.
C21_PromptSectionsInOrder ==
    Built =>
        call.result[1] = Contribution(call.system_prompt) \o Contribution(call.instruction)
                           \o <<"Question:", " ">> \o call.question \o BlankLine
                           \o <<"Answer:">>

\* A prompt was built with an instruction and without a system prompt: it
\* starts with the instruction.
C21_Witness ==
    /\ Built
    /\ call.system_prompt = None
    /\ call.instruction = Some(<<"INS">>)
    /\ call.question = <<"Q">>
    /\ call.result[1] = <<"INS", "\n", "\n", "Question:", " ", "Q", "\n", "\n", "Answer:">>

\* The statements of build_prompt compute what the operator build_prompt, used
\* by run(), computes.
BuildPromptAgrees ==
    Built => call.result[1] = build_prompt(call.question, call.system_prompt, call.instruction)

\* The three counters of executor e.
counters(e) ==
    << exec[e].total_input_tokens, exec[e].total_output_tokens, exec[e].num_llm_calls >>

\* The positions of a thread inside reset_counters and inside the three
\* additions of call_llm, inside create_response, and at a strategy's prompt
\* building and answer parsing.
InResetCounters == {"reset_in", "reset_out", "reset_calls"}
InCallLlmAdditions ==
    {"add_in_load", "add_in_store", "add_out_load", "add_out_store",
     "add_calls_load", "add_calls_store"}
InCreateResponse == {"snap_in", "snap_out", "snap_calls"}
InStrategy == {"build", "return_llm"}

\* C22: the counters of an executor change only in reset_counters and in
\* call_llm of a run on it; create_response copies the three counters and the
\* executor's baseline name into the new record and changes no counter; no
\* prompt building or answer parsing step changes a counter.
C22_CountersChangeOnlyInResetAndCallLlm ==
    [][/\ \A e \in Executors :
             counters(e)' # counters(e) =>
                 \E t \in Threads :
                     self(t) = e /\ pc[t] \in InResetCounters \cup InCallLlmAdditions
       /\ \A t \in Threads :
             pc[t] \in InCreateResponse \cup InStrategy => exec' = exec
       /\ \A t \in Threads :
             ReturnsRecord(t) =>
                 /\ response'[t][1].total_input_tokens = exec[self(t)].total_input_tokens
                 /\ response'[t][1].total_output_tokens = exec[self(t)].total_output_tokens
                 /\ response'[t][1].num_llm_calls = exec[self(t)].num_llm_calls
                 /\ response'[t][1].baseline_type = exec[self(t)].baseline_name]_vars

\* create_response has returned a record of two calls with tokens, and the
\* executor still holds the counts the record carries.
C22_Witness ==
    \E t \in Threads :
        /\ Returned(t)
        /\ record(t).num_llm_calls = 2
        /\ record(t).total_input_tokens + record(t).total_output_tokens > 0
        /\ counters(ghost[t].self) = << record(t).total_input_tokens,
                                        record(t).total_output_tokens,
                                        record(t).num_llm_calls >>
        /\ record(t).baseline_type = "ZeroShotCoT"

\* The intermediate_steps list of the record thread t holds.
steps_of(t) == heap[record(t).intermediate_steps].items

\* Entry x is the label followed by the trimmed output of Port call c.
IsLabelledOutput(x, label, c) ==
    /\ Len(x) >= 2
    /\ SubSeq(x, 1, 2) = <<label, "\n">>
    /\ c.status = "returned"
    /\ IsTrimOf(SubSeq(x, 3, Len(x)), c.returned[1].content)

\* C23: the record of a ZeroShotCoT run counts exactly its one or two Port
\* calls (two exactly when extraction was asked for); intermediate_steps
\* holds the reasoning output first and, only if extraction was performed,
\* the raw extraction output second, each labelled and trimmed, so that it
\* has num_llm_calls entries.
C23_StepsMatchCalls ==
    \A t \in Threads :
        (Returned(t) /\ run_class(t) = "ZeroShotCoT") =>
            /\ record(t).num_llm_calls \in {1, 2}
            /\ record(t).num_llm_calls = 2 <=> run_args(t).extract_answer
            /\ CountsOwnCalls(t)
            /\ Len(steps_of(t)) = record(t).num_llm_calls
            /\ IsLabelledOutput(steps_of(t)[1], "[Reasoning]", calls[t][1])
            /\ run_args(t).extract_answer =>
                  IsLabelledOutput(steps_of(t)[2], "[Extraction]", calls[t][2])

\* A two-stage run returned whose second step is the raw extraction output,
\* which is not the extracted answer.
C23_Witness ==
    \E t \in Threads :
        /\ Returned(t)
        /\ run_class(t) = "ZeroShotCoT"
        /\ run_args(t).extract_answer
        /\ Len(steps_of(t)) = 2
        /\ record(t).num_llm_calls = 2
        /\ steps_of(t)[2] # <<"[Extraction]", "\n">> \o record(t).final_answer
        /\ steps_of(t)[1] # steps_of(t)[2]

\* C24: in every state the count getter of each aggregator (get_num_runs,
\* get_M) gives the number of samples recorded with success since the object
\* was constructed or last reset; it is 0 right after reset(), and a rejected
\* Efficiency sample does not count.
C24_CountGettersCountRecorded ==
    /\ statistics.constructed =>
          /\ get_num_runs(statistics.accuracy_list) = Value("int", Len(statistics.added), 1)
          /\ statistics.last[1].op = "reset" =>
                get_num_runs(statistics.accuracy_list) = Value("int", 0, 1)
          /\ statistics.last[1].num_runs # NoValue =>
                statistics.last[1].num_runs = Value("int", Len(statistics.added), 1)
    /\ efficiency.constructed =>
          /\ get_M(efficiency.samples) = Value("int", efficiency.recorded, 1)
          /\ efficiency.last[1].op = "reset" => get_M(efficiency.samples) = Value("int", 0, 1)
          /\ efficiency.last[1].op = "get_M" =>
                efficiency.last[1].value = Value("int", efficiency.recorded, 1)

\* A sample was rejected by an Efficiency object that holds one recorded
\* sample: get_M is still 1.
C24_Witness ==
    /\ EffLast("record_sample")
    /\ efficiency.last[1].value.raised = "ValueError"
    /\ efficiency.recorded = 1
    /\ efficiency.num_tasks = 2
    /\ get_M(efficiency.samples) = Value("int", 1, 1)

\* get_num_runs returned 2 on an AccuracyStatistics object.
C24_WitnessStatistics ==
    /\ statistics.constructed
    /\ statistics.last[1].op = "get_num_runs"
    /\ statistics.last[1].num_runs = Value("int", 2, 1)

\* C25 as stated: in every state reached through the constructor,
\* record_sample and reset, get_T returns a number and does not fail; it
\* returns 0 when no sample has been recorded.
C25_GetTNeverFails ==
    EffLast("get_T") =>
        /\ efficiency.last[1].value.raised = "none"
        /\ efficiency.last[1].value.kind = "float"
        /\ efficiency.samples = <<>> => efficiency.last[1].value.num = 0

\* What holds of C25: for a task count that is not 0 get_T does not fail, it
\* returns a number unless a stored row holds NaN, and it returns 0 when no
\* sample has been recorded.
GetTDefinedForTasks ==
    (EffLast("get_T") /\ efficiency.num_tasks # 0) =>
        /\ efficiency.last[1].value.raised = "none"
        /\ ~HoldsNaN(efficiency.samples) => efficiency.last[1].value.kind = "float"
        /\ efficiency.samples = <<>> => efficiency.last[1].value = Value("float", 0, efficiency.num_tasks)

\* The number of Port calls of log cs that returned.
returned_calls(cs) == Cardinality({i \in 1..Len(cs) : cs[i].status = "returned"})

\* C26: a call_llm whose Port call raised leaves the three counters of the
\* executor as they were when call_llm was entered: num_llm_calls counts the
\* Port calls that returned only, and the token totals hold nothing of the
\* failed call.
C26_FailedCallLeavesCounters ==
    \A t \in Threads :
        outcome[t] = "raised" =>
            /\ counters(ghost[t].self) =
                  << calls[t][Len(calls[t])].before.total_input_tokens,
                     calls[t][Len(calls[t])].before.total_output_tokens,
                     calls[t][Len(calls[t])].before.num_llm_calls >>
            /\ exec[ghost[t].self].num_llm_calls = returned_calls(calls[t])
            /\ exec[ghost[t].self].total_input_tokens = port_tokens(calls[t], "input_tokens")
            /\ exec[ghost[t].self].total_output_tokens = port_tokens(calls[t], "output_tokens")

\* The second Port call of a run raised after the first had returned with
\* tokens: the executor counts one call.
C26_Witness ==
    \E t \in Threads :
        /\ outcome[t] = "raised"
        /\ Len(calls[t]) = 2
        /\ calls[t][1].status = "returned"
        /\ calls[t][2].status = "raised"
        /\ exec[ghost[t].self].num_llm_calls = 1
        /\ exec[ghost[t].self].total_input_tokens + exec[ghost[t].self].total_output_tokens > 0

=============================================================================
